---------------------------- MODULE Spec2Model ----------------------------
(***************************************************************************)
(* Model of the HEMS controller's decision engine                          *)
(* (controller/utils/utils.py, ha_interface/ha_interface.py).              *)
(*                                                                         *)
(* Conventions                                                             *)
(*   - temperatures are integers in hundredths of a degree C (21 C = 2100) *)
(*     so that Python's round(x, 2) is rounding to an integer;             *)
(*   - instants are integer seconds since local midnight of day 0;         *)
(*   - an optional value is a set: None is {} and the value v is {v};      *)
(*   - a Python call that may raise returns a record with a raised flag.   *)
(***************************************************************************)
EXTENDS Integers, Sequences, FiniteSets, TLC

VARIABLES
    schedule,      \* get_target_from_schedule: the schedule argument
    sched_call,    \* get_target_from_schedule: last call (hour, day type, result)
    ramp_call,     \* conditioning_ramping: last call (arguments, result)
    now,           \* datetime.datetime.now().astimezone(), in seconds
    zone_settings, \* config["hvac_systems"][zone_id] of the zone being resolved
    gdp_event,     \* the gdp_event argument of get_target_temperature
    target_call,   \* get_target_temperature: last call (result, branch taken)
    peak_events,   \* the list returned by peak_events_client.get_peak_events()
    selected,      \* retrieve_gdp_event: last call (result)
    outside_temperature, \* devices_state["weather.home"]["temperature"]
    hp_call,       \* get_control_actions: heat-pump mode and COP of the last call
    hvac_systems,  \* config["hvac_systems"]: the zones of config.yaml, in file order
    heat_pump_enabled, \* options_data.get("heat_pump_enabled", False)
    zones_call,    \* select_zones_hp_impact: last call (both results)
    devices_state, \* the snapshot get_device_state returned for this cycle
    rejected,      \* the entities whose service calls the platform rejects
    control_call,  \* get_control_actions: last call (actions or exception)
    exec_call,     \* execute_control_actions: last call (commands, exception)
    process,       \* main(): where the control loop stands
    scheduler,     \* main(): the thread's position and the jobs of the schedule module
    cycles,        \* the runs of _main_loop in flight, and the steps taken so far
    retrieval,     \* the retrieval of the peak events: attempts made, outcome
    boot,          \* main() before the loop: config.yaml, the devices, the updates made
    cop_call       \* create_cop_model: the COP tables, the outcome, the first cycle

sched_vars  == <<schedule, sched_call>>
ramp_vars   == <<ramp_call>>
target_vars == <<zone_settings, gdp_event, target_call>>
feed_vars   == <<peak_events, selected>>
hp_vars     == <<outside_temperature, hp_call>>
zone_vars   == <<hvac_systems, heat_pump_enabled, zones_call>>
cycle_vars  == <<devices_state, rejected, control_call, exec_call, process>>
extra_vars  == <<scheduler, cycles, retrieval, boot, cop_call>>
vars == <<schedule, sched_call, ramp_call, now, zone_settings, gdp_event,
          target_call, peak_events, selected, outside_temperature, hp_call,
          hvac_systems, heat_pump_enabled, zones_call,
          devices_state, rejected, control_call, exec_call, process,
          scheduler, cycles, retrieval, boot, cop_call>>

----------------------------------------------------------------------------
(* Optional values and small helpers *)

None == {}

Some(v) == {v}

Val(x) == CHOOSE v \in x : TRUE

\* Python's `x or 0.0` for a number or None
OrZero(x) == IF x = None THEN 0 ELSE Val(x)

Abs(a) == IF a >= 0 THEN a ELSE -a

RECURSIVE SeqsUpTo(_, _)
\* every sequence over S of length at most n
SeqsUpTo(S, n) ==
    IF n = 0 THEN {<< >>}
    ELSE LET shorter == SeqsUpTo(S, n - 1)
         IN  shorter \cup {Append(s, x) : s \in {t \in shorter : Len(t) = n - 1}, x \in S}

----------------------------------------------------------------------------
(* Time *)

SecondsPerHour == 60 * 60

SecondsPerDay == 24 * SecondsPerHour

\* horizon of the model, in days
Days == 2

\* weekday() of day 0 (4 = Friday, so that day 1 is a weekend day)
EpochWeekday == 4

\* the scheduler runs a cycle on every 5-minute mark of the hour
TimeStep == 5 * 60

Horizon == Days * SecondsPerDay

Instants == {k * TimeStep : k \in 0..(Horizon \div TimeStep)}

\* datetime.hour
HourOf(t) == (t \div SecondsPerHour) % 24

\* datetime.date(), as a day number
DateOf(t) == t \div SecondsPerDay

\* datetime.weekday()
WeekdayOf(t) == (EpochWeekday + DateOf(t)) % 7

DayTypes == {"weekday", "weekend"}

\* current_day_type = "weekday" if now.weekday() < 5 else "weekend"
DayTypeOf(t) == IF WeekdayOf(t) < 5 THEN "weekday" ELSE "weekend"

----------------------------------------------------------------------------
(* ScheduleResolver: get_target_from_schedule *)

\* A slot is one entry of time_slots: the key "<sh>h<sm>-<eh>h<em>" kept as
\* its four numbers, and slot_data.get("target_temp_C").
Slot(sh, sm, eh, em, t) == [key |-> <<sh, sm, eh, em>>, target_temp_C |-> t]

\* int(start_str.split("h")[0]): the minutes of the key are dropped
StartHour(slot) == slot.key[1]

\* int(end_str.split("h")[0])
EndHour(slot) == slot.key[3]

\* the mutant: the end of a slot taken as inclusive
SlotMatches_inclusive(slot, current_hour) ==
    IF StartHour(slot) < EndHour(slot)
    THEN StartHour(slot) <= current_hour /\ current_hour <= EndHour(slot)
    ELSE current_hour >= StartHour(slot) \/ current_hour <= EndHour(slot)

\* the two range tests of the loop body
SlotMatches(slot, current_hour) ==
    IF StartHour(slot) < EndHour(slot)
    THEN StartHour(slot) <= current_hour /\ current_hour < EndHour(slot)
    ELSE current_hour >= StartHour(slot) \/ current_hour < EndHour(slot)

RECURSIVE ScanSlots(_, _, _)
\* for slot_range, slot_data in time_slots.items(): return at the first match
ScanSlots(time_slots, i, current_hour) ==
    IF i > Len(time_slots) THEN None
    ELSE IF SlotMatches(time_slots[i], current_hour)
         THEN time_slots[i].target_temp_C
         ELSE ScanSlots(time_slots, i + 1, current_hour)

\* the mutant: the last matching slot wins instead of the first
RECURSIVE ScanSlotsLast(_, _, _)
ScanSlotsLast(time_slots, i, current_hour) ==
    IF i < 1 THEN None
    ELSE IF SlotMatches(time_slots[i], current_hour)
         THEN time_slots[i].target_temp_C
         ELSE ScanSlotsLast(time_slots, i - 1, current_hour)

get_target_from_schedule_last(current_hour, current_day_type, sched) ==
    IF current_day_type \in DOMAIN sched
    THEN ScanSlotsLast(sched[current_day_type], Len(sched[current_day_type]), current_hour)
    ELSE None

\* a schedule maps the day types it has to their time_slots, in file order
get_target_from_schedule(current_hour, current_day_type, sched) ==
    IF current_day_type \in DOMAIN sched
    THEN ScanSlots(sched[current_day_type], 1, current_hour)
    ELSE None

\* default_schedule of update_config_with_zones
DefaultWeekday == << Slot(6, 0, 22, 0, Some(2100)), Slot(22, 0, 6, 0, Some(1800)) >>

DefaultWeekend == << Slot(8, 0, 23, 0, Some(2200)), Slot(23, 0, 8, 0, Some(1900)) >>

default_schedule == [d \in DayTypes |-> IF d = "weekday" THEN DefaultWeekday ELSE DefaultWeekend]

----------------------------------------------------------------------------
(* RampCalculator: conditioning_ramping *)

\* ramping_time_short = ramping_time - 900
RampMargin == 900

\* round(n / d, 2) on hundredths, d > 0: nearest integer, ties to even
RoundHalfEven(n, d) ==
    LET q == n \div d
        r == n - q * d
    IN  IF 2 * r < d THEN q
        ELSE IF 2 * r > d THEN q + 1
        ELSE IF q % 2 = 0 THEN q ELSE q + 1

\* the result of a call: raised (a TypeError) or a value (None or a number)
Returned(v) == [raised |-> FALSE, value |-> v]

Raised == [raised |-> TRUE, value |-> None]

\* round(x, 2) of a number or None
Round2(x) == IF x = None THEN Raised ELSE Returned(x)

\* the mutant: the ramp ends at ramping_time, without the 15-minute margin
conditioning_ramping_no_margin(ramping_time, elapsed_time, initial_value, target_value) ==
    IF elapsed_time <= 0 THEN Round2(initial_value)
    ELSE IF elapsed_time >= ramping_time THEN Round2(target_value)
    ELSE IF initial_value = None \/ target_value = None THEN Raised
    ELSE Returned(Some(RoundHalfEven(
             Val(initial_value) * ramping_time
                 + (Val(target_value) - Val(initial_value)) * elapsed_time,
             ramping_time)))

\* the mutant: the interpolation goes on past ramping_time_short
conditioning_ramping_overshoot(ramping_time, elapsed_time, initial_value, target_value) ==
    LET ramping_time_short == ramping_time - RampMargin
    IN  IF elapsed_time <= 0 THEN Round2(initial_value)
        ELSE IF ramping_time_short <= 0 THEN Round2(target_value)
        ELSE IF initial_value = None \/ target_value = None THEN Raised
        ELSE Returned(Some(RoundHalfEven(
                 Val(initial_value) * ramping_time_short
                     + (Val(target_value) - Val(initial_value)) * elapsed_time,
                 ramping_time_short)))

\* initial_value and target_value are optional numbers: the recovery branch
\* passes a target_value that may be None
conditioning_ramping(ramping_time, elapsed_time, initial_value, target_value) ==
    LET ramping_time_short == ramping_time - RampMargin
    IN  IF elapsed_time <= 0 THEN Round2(initial_value)
        ELSE IF elapsed_time >= ramping_time_short THEN Round2(target_value)
        ELSE IF initial_value = None \/ target_value = None THEN Raised
        ELSE Returned(Some(RoundHalfEven(
                 Val(initial_value) * ramping_time_short
                     + (Val(target_value) - Val(initial_value)) * elapsed_time,
                 ramping_time_short)))

----------------------------------------------------------------------------
(* PeakEventPhaseResolver: get_target_temperature *)

\* dict.get(key, default)
Get(d, key, default) == IF key \in DOMAIN d THEN d[key] ELSE default

\* a zone (or a schedule) with no key at all: {}
EmptyDict == [k \in {} |-> None]

\* PeakEvent: the two fields the resolver reads
PeakEvent(start, end) == [datedebut |-> start, datefin |-> end]

\* datetime.timedelta(hours=2)
PreconditioningLead == 2 * SecondsPerHour

\* datetime.timedelta(hours=1)
RecoveryLength == 1 * SecondsPerHour

\* preconditioning_timestamp_dict
PreconditioningWindow(ev) ==
    [start |-> ev.datedebut - PreconditioningLead, end |-> ev.datedebut]

\* post_event_recovery_timestamp_dict
RecoveryWindow(ev) ==
    [start |-> ev.datefin, end |-> ev.datefin + RecoveryLength]

\* the mutant: the event window closed at its end
InEventWindow_closed(t, ev) == t >= ev.datedebut /\ t <= ev.datefin

\* now >= gdp_timestamp_dict["start"] and now < gdp_timestamp_dict["end"]
InEventWindow(t, ev) == t >= ev.datedebut /\ t < ev.datefin

\* now >= preconditioning["start"] and now < preconditioning["end"]
InPreconditioningWindow(t, ev) ==
    t >= PreconditioningWindow(ev).start /\ t < PreconditioningWindow(ev).end

\* now >= post_event_recovery["start"] and now < post_event_recovery["end"]
InRecoveryWindow(t, ev) ==
    t >= RecoveryWindow(ev).start /\ t < RecoveryWindow(ev).end

\* the branch of the if / elif chain that runs
Branch(t, event, zone_preconditioning) ==
    IF event = None THEN "normal"
    ELSE IF InEventWindow(t, Val(event)) THEN "event"
    ELSE IF zone_preconditioning /\ InPreconditioningWindow(t, Val(event))
         THEN "precondition"
    ELSE IF InRecoveryWindow(t, Val(event)) THEN "recovery"
    ELSE "normal"

\* init_target_temperature - zone_flexibility.get("downward", 0.0):
\* None - float is a TypeError
EventTarget(init_target_temperature, zone_flexibility) ==
    IF init_target_temperature = None THEN Raised
    ELSE Returned(Some(Val(init_target_temperature)
                        - Get(zone_flexibility, "downward", 0)))

\* max_target_temperature_at_gdp_event: the value at start_gdp_hour, then the
\* loop over range(start_gdp_hour, stop_gdp_hour), each lookup `or 0.0`
MaxTargetAtGdpEvent(ev, current_day_type, sched) ==
    LET start_gdp_hour == HourOf(ev.datedebut)
        stop_gdp_hour  == HourOf(ev.datefin)
        seen == {OrZero(get_target_from_schedule(h, current_day_type, sched)) :
                    h \in {start_gdp_hour} \cup (start_gdp_hour..(stop_gdp_hour - 1))}
    IN  CHOOSE m \in seen : \A v \in seen : m >= v

\* the preconditioning branch
PreconditionTarget(t, ev, current_day_type, sched, zone_flexibility) ==
    LET pre == PreconditioningWindow(ev)
    IN  conditioning_ramping(
            pre.end - pre.start,
            t - pre.start,
            Some(OrZero(get_target_from_schedule(HourOf(pre.start), current_day_type, sched))),
            Some(Get(zone_flexibility, "upward", 0)
                   + MaxTargetAtGdpEvent(ev, current_day_type, sched)))

\* the post-event recovery branch
RecoveryTarget(t, ev, current_day_type, sched) ==
    LET rec == RecoveryWindow(ev)
        max_target_temperature_post_event_recovery ==
            get_target_from_schedule(HourOf(rec.end), current_day_type, sched)
        init_zone_temperature_after_gdp_event ==
            OrZero(get_target_from_schedule(HourOf(rec.start) - 1, current_day_type, sched))
    IN  conditioning_ramping(
            rec.end - rec.start,
            t - rec.start,
            Some(init_zone_temperature_after_gdp_event),
            max_target_temperature_post_event_recovery)

\* the mutant: the downward flexibility applied outside the event window too
NormalTarget_flex(init_target_temperature, zone_flexibility) ==
    IF init_target_temperature = None THEN Returned(None)
    ELSE Returned(Some(Val(init_target_temperature)
                        - Get(zone_flexibility, "downward", 0)))

\* target_temperature = init_target_temperature
NormalTarget(init_target_temperature, zone_flexibility) ==
    Returned(init_target_temperature)

\* settings is hvac_systems.get(zone_id, {}); the result carries the branch taken
get_target_temperature(settings, event, t, hvac_mode) ==
    LET zone_flexibility == Get(settings, "flexibility", [upward |-> 0, downward |-> 0])
        zone_preconditioning == Get(settings, "preconditioning", FALSE)
        sched == IF hvac_mode = None
                 THEN Get(settings, "schedule", EmptyDict)
                 ELSE Get(Get(settings, Val(hvac_mode), EmptyDict), "schedule", EmptyDict)
        current_hour == HourOf(t)
        current_day_type == DayTypeOf(t)
        init_target_temperature ==
            get_target_from_schedule(current_hour, current_day_type, sched)
        branch == Branch(t, event, zone_preconditioning)
        result ==
            CASE branch = "event" ->
                    EventTarget(init_target_temperature, zone_flexibility)
              [] branch = "precondition" ->
                    PreconditionTarget(t, Val(event), current_day_type, sched, zone_flexibility)
              [] branch = "recovery" ->
                    RecoveryTarget(t, Val(event), current_day_type, sched)
              [] OTHER ->
                    NormalTarget(init_target_temperature, zone_flexibility)
    IN  [branch |-> branch, raised |-> result.raised, value |-> result.value]

----------------------------------------------------------------------------
(* Peak-event selection: retrieve_gdp_event *)

\* today_events = [event for event in peak_events if event.datedebut.date() == today]
TodayEvents(events, t) ==
    SelectSeq(events, LAMBDA e : DateOf(e.datedebut) = DateOf(t))

\* one step of the stable sort: e goes after every event that does not start later
InsertByStart(sorted, e) ==
    LET k == Cardinality({i \in 1..Len(sorted) : sorted[i].datedebut <= e.datedebut})
    IN  SubSeq(sorted, 1, k) \o <<e>> \o SubSeq(sorted, k + 1, Len(sorted))

RECURSIVE SortByStartFrom(_, _, _)
SortByStartFrom(events, i, sorted) ==
    IF i > Len(events) THEN sorted
    ELSE SortByStartFrom(events, i + 1, InsertByStart(sorted, events[i]))

\* the mutant: the sort is left out and the events keep the order of the feed
SortByStart_unsorted(events) == events

\* today_events.sort(key=lambda e: e.datedebut)
SortByStart(events) == SortByStartFrom(events, 1, << >>)

\* event.datedebut <= now <= event.datefin
IsOngoing(e, t) == e.datedebut <= t /\ t <= e.datefin

\* now < event.datedebut
IsUpcoming(e, t) == t < e.datedebut

RECURSIVE FirstOngoingOrUpcoming(_, _, _)
\* for event in today_events: return the first ongoing or upcoming one
FirstOngoingOrUpcoming(events, i, t) ==
    IF i > Len(events) THEN None
    ELSE IF IsOngoing(events[i], t) THEN Some(events[i])
    ELSE IF IsUpcoming(events[i], t) THEN Some(events[i])
    ELSE FirstOngoingOrUpcoming(events, i + 1, t)

\* events is the list the client returned; None when there is no event today
\* or all of today's events are finished
retrieve_gdp_event(events, t) ==
    LET today_events == TodayEvents(events, t)
    IN  IF today_events = << >> THEN None
        ELSE FirstOngoingOrUpcoming(SortByStart(today_events), 1, t)

----------------------------------------------------------------------------
(* ModeSelector and COP: the head of get_control_actions *)

\* outside_temperature > 20
CoolAbove == 2000

\* outside_temperature < 10
HeatBelow == 1000

\* the mutant: the neutral band loses its upper end
HeatPumpMode_ge(outside) ==
    IF outside >= CoolAbove THEN "cool"
    ELSE IF outside < HeatBelow THEN "heat"
    ELSE "off"

\* the if / elif chain on a reading that is not None
HeatPumpMode(outside) ==
    IF outside > CoolAbove THEN "cool"
    ELSE IF outside < HeatBelow THEN "heat"
    ELSE "off"

\* np.poly1d of degree 2 at a temperature in hundredths of a degree; the
\* coefficients <<c2, c1, c0>> and the COP are in ten-thousandths
PolyEval(model, outside) ==
    (model[1] * outside * outside) \div 10000 + (model[2] * outside) \div 100 + model[3]

\* the mutant: the COP model is evaluated in every mode
HeatPumpCop_always(heat_pump_mode, outside, heat_pump_cop_models) ==
    IF heat_pump_mode = "off"
    THEN [cop |-> PolyEval(heat_pump_cop_models["heat"], outside), evaluated |-> {"heat"}]
    ELSE [cop |-> PolyEval(heat_pump_cop_models[heat_pump_mode], outside),
          evaluated |-> {heat_pump_mode}]

\* heat_pump_cop, and which of the two models was called to get it
HeatPumpCop(heat_pump_mode, outside, heat_pump_cop_models) ==
    IF heat_pump_mode = "off"
    THEN [cop |-> 0, evaluated |-> {}]
    ELSE [cop |-> PolyEval(heat_pump_cop_models[heat_pump_mode], outside),
          evaluated |-> {heat_pump_mode}]

\* lines 96-116 of get_control_actions: a reading of None raises ValueError
SelectModeAndCop(outside_reading, heat_pump_cop_models) ==
    IF outside_reading = None
    THEN [raised |-> TRUE, heat_pump_mode |-> None, heat_pump_cop |-> None, evaluated |-> {}]
    ELSE LET heat_pump_mode == HeatPumpMode(Val(outside_reading))
             c == HeatPumpCop(heat_pump_mode, Val(outside_reading), heat_pump_cop_models)
         IN  [raised |-> FALSE, heat_pump_mode |-> Some(heat_pump_mode),
              heat_pump_cop |-> Some(c.cop), evaluated |-> c.evaluated]

----------------------------------------------------------------------------
(* Calls that have not been made yet, and the idle value of each group *)

NoCall == [called |-> FALSE]

IdleSched == schedule = EmptyDict /\ sched_call = NoCall

IdleRamp == ramp_call = NoCall

IdleTarget == zone_settings = EmptyDict /\ gdp_event = None /\ target_call = NoCall

IdleFeed == peak_events = << >> /\ selected = NoCall

IdleHp == outside_temperature = None /\ hp_call = NoCall

IdleZones == hvac_systems = << >> /\ heat_pump_enabled = FALSE /\ zones_call = NoCall

IdleCycle ==
    /\ devices_state = EmptyDict
    /\ rejected = {}
    /\ control_call = NoCall
    /\ exec_call = NoCall
    /\ process = "idle"

IdleExtra ==
    /\ scheduler = NoCall /\ cycles = NoCall /\ retrieval = NoCall
    /\ boot = NoCall /\ cop_call = NoCall

----------------------------------------------------------------------------
(* SpecSched: get_target_from_schedule on bounded schedule tables *)

\* most slots of a time_slots table
MaxSlots == 2

SlotHours == {0, 8, 22}

SlotMinutes == {0, 30}

SlotTemps == {1800, 2100}

\* the slots whose keys carry minute m ("8h30-22h30" for m = 30)
SlotInputs(m) ==
    {Slot(sh, m, eh, m, Some(t)) : sh \in SlotHours, eh \in SlotHours, t \in SlotTemps}

TableInputs == UNION {SeqsUpTo(SlotInputs(m), MaxSlots) : m \in SlotMinutes}

\* no day type, the weekday table alone, or both day types
ScheduleInputs ==
    {EmptyDict, default_schedule}
      \cup {[d \in {"weekday"} |-> t] : t \in TableInputs}

\* the hours the resolver is called with (recovery start hour - 1 can be -1)
HourInputs == (0 - 1)..23

InitSched ==
    /\ schedule \in ScheduleInputs
    /\ sched_call = NoCall
    /\ now = 0
    /\ IdleRamp /\ IdleTarget /\ IdleFeed /\ IdleHp /\ IdleZones /\ IdleCycle /\ IdleExtra

\* one call per run: the function keeps no state between calls
GetTargetFromSchedule ==
    /\ ~sched_call.called
    /\ \E h \in HourInputs, d \in DayTypes :
          sched_call' = [called |-> TRUE, current_hour |-> h, current_day_type |-> d,
                         result |-> get_target_from_schedule(h, d, schedule)]
    /\ UNCHANGED <<schedule, now, ramp_vars, target_vars, feed_vars, hp_vars, zone_vars, cycle_vars, extra_vars>>

NextSched == GetTargetFromSchedule

SpecSched == InitSched /\ [][NextSched]_vars

\* the claim's matching rule, on the hours of the slot's range
ClaimSlotMatches(slot, h) ==
    IF slot.key[1] < slot.key[3]
    THEN slot.key[1] <= h /\ h < slot.key[3]
    ELSE h >= slot.key[1] \/ h < slot.key[3]

MatchingSlots(time_slots, h) ==
    {i \in 1..Len(time_slots) : ClaimSlotMatches(time_slots[i], h)}

MinOf(S) == CHOOSE m \in S : \A x \in S : m <= x

\* C7: get_target_from_schedule returns the target of the first slot, in
\* enumeration order, whose range matches the hour (start <= hour < end, or
\* hour >= start or hour < end for a range with start >= end), and none when
\* no slot matches or the day type is absent from the schedule.
C7_FirstMatchingSlot ==
    sched_call.called =>
        LET h == sched_call.current_hour
            d == sched_call.current_day_type
        IN  IF d \notin DOMAIN schedule THEN sched_call.result = None
            ELSE IF MatchingSlots(schedule[d], h) = {} THEN sched_call.result = None
            ELSE sched_call.result
                    = schedule[d][MinOf(MatchingSlots(schedule[d], h))].target_temp_C

\* a call on a table where two slots with different targets match the hour
C7_Witness ==
    /\ sched_call.called
    /\ sched_call.current_day_type \in DOMAIN schedule
    /\ LET ts == schedule[sched_call.current_day_type]
           M  == MatchingSlots(ts, sched_call.current_hour)
       IN  /\ Cardinality(M) = 2
           /\ \E i \in M, j \in M : i < j /\ ts[i].target_temp_C # ts[j].target_temp_C
           /\ sched_call.result = ts[MinOf(M)].target_temp_C

\* the hours of the day a range stands for
CoveredHours(slot) ==
    IF slot.key[1] < slot.key[3]
    THEN {h \in 0..23 : slot.key[1] <= h /\ h < slot.key[3]}
    ELSE {h \in 0..23 : h >= slot.key[1]} \cup {h \in 0..23 : h < slot.key[3]}

\* the slots cover every hour of the day exactly once and each has a target
IsPartition(time_slots) ==
    /\ \A h \in 0..23 :
          Cardinality({i \in 1..Len(time_slots) : h \in CoveredHours(time_slots[i])}) = 1
    /\ \A i \in 1..Len(time_slots) : time_slots[i].target_temp_C # None

\* every enumeration order of a table
Reorderings(time_slots) ==
    LET n == Len(time_slots)
    IN  {[i \in 1..n |-> time_slots[p[i]]] :
            p \in {q \in [1..n -> 1..n] : \A a, b \in 1..n : q[a] = q[b] => a = b}}

\* C8: on a table whose slots partition the day, every hour 0..23 resolves to
\* the non-none target of the one slot that covers it, in every enumeration
\* order of the slots (the tables of ScheduleInputs come in every order).
C8_PartitionResolvesEveryHour ==
    (/\ sched_call.called
     /\ sched_call.current_hour \in 0..23
     /\ sched_call.current_day_type \in DOMAIN schedule
     /\ IsPartition(schedule[sched_call.current_day_type]))
    => LET ts == schedule[sched_call.current_day_type]
           h  == sched_call.current_hour
       IN  /\ sched_call.result # None
           /\ Cardinality(MatchingSlots(ts, h)) = 1
           /\ \E i \in 1..Len(ts) :
                 /\ h \in CoveredHours(ts[i])
                 /\ sched_call.result = ts[i].target_temp_C
           /\ \A other \in Reorderings(ts) :
                 get_target_from_schedule(h, sched_call.current_day_type,
                                          [x \in {sched_call.current_day_type} |-> other])
                   = sched_call.result

\* a call on a two-slot partition with a wrapping slot and two targets, at the
\* hour where the wrapping slot starts
C8_Witness ==
    /\ sched_call.called
    /\ sched_call.current_day_type = "weekday"
    /\ "weekday" \in DOMAIN schedule
    /\ LET ts == schedule["weekday"]
       IN  /\ Len(ts) = 2
           /\ IsPartition(ts)
           /\ ts[1].target_temp_C # ts[2].target_temp_C
           /\ ts[2].key[1] > ts[2].key[3]
           /\ sched_call.current_hour = ts[2].key[1]
           /\ sched_call.result = ts[2].target_temp_C

----------------------------------------------------------------------------
(* SpecRamp: conditioning_ramping on bounded arguments *)

\* the two windows of the resolver, a shorter window, and durations within the
\* margin, zero and a negative one included
RampTimeInputs == {0 - 450, 0, 450, 900, 1800, RecoveryLength, PreconditioningLead}

ElapsedInputs == {k * 450 : k \in (0 - 2)..16}

\* 18.07 next to 18.00 puts an interpolated value half-way between hundredths
RampValueInputs == {Some(0), Some(1800), Some(1807), Some(2200)}

InitRamp ==
    /\ ramp_call = NoCall
    /\ now = 0
    /\ IdleSched /\ IdleTarget /\ IdleFeed /\ IdleHp /\ IdleZones /\ IdleCycle /\ IdleExtra

ConditioningRamping ==
    /\ ~ramp_call.called
    /\ \E rt \in RampTimeInputs, el \in ElapsedInputs,
          iv \in RampValueInputs, tv \in RampValueInputs \cup {None} :
          ramp_call' = [called |-> TRUE, ramping_time |-> rt, elapsed_time |-> el,
                        initial_value |-> iv, target_value |-> tv,
                        result |-> conditioning_ramping(rt, el, iv, tv)]
    /\ UNCHANGED <<now, sched_vars, target_vars, feed_vars, hp_vars, zone_vars, cycle_vars, extra_vars>>

NextRamp == ConditioningRamping

SpecRamp == InitRamp /\ [][NextRamp]_vars

\* r is x / d rounded to the nearest integer (d > 0)
IsNearest(r, x, d) == 2 * Abs(r * d - x) <= d

----------------------------------------------------------------------------
(* SpecTarget: get_target_temperature for one zone as the clock advances *)

\* both day types: 18 C until 22h, 21 C from 22h to midnight
evening_schedule ==
    [d \in DayTypes |-> << Slot(0, 0, 22, 0, Some(1800)), Slot(22, 0, 0, 0, Some(2100)) >>]

\* weekdays only, and no slot for the night
daytime_schedule ==
    [d \in {"weekday"} |-> << Slot(6, 0, 22, 0, Some(2100)) >>]

\* both day types, no slot that wraps midnight
split_schedule ==
    [d \in DayTypes |-> << Slot(0, 0, 12, 0, Some(1800)), Slot(12, 0, 24, 0, Some(2100)) >>]

ZoneScheduleInputs == {default_schedule, evening_schedule, daytime_schedule, split_schedule}

FlexibilityInputs == {[upward |-> 0, downward |-> 0], [upward |-> 100, downward |-> 200]}

\* a zone of config.yaml with every key, or with its schedule alone
ZoneSettingsInputs ==
    {[schedule |-> default_schedule]}
      \cup {[heat_pump_impact |-> 0, flexibility |-> f, preconditioning |-> p, schedule |-> s] :
               f \in FlexibilityInputs, p \in BOOLEAN, s \in ZoneScheduleInputs}

EventStartHours == {16, 20, 21}

\* half an hour (start and end in the same hour) and four hours
EventDurations == {SecondsPerHour \div 2, 4 * SecondsPerHour}

\* events of day 0: 20h + 4h ends in hour 0, 21h + 4h crosses midnight
EventInputs ==
    {None} \cup {Some(PeakEvent(h * SecondsPerHour, h * SecondsPerHour + d)) :
                    h \in EventStartHours, d \in EventDurations}

InitTarget ==
    /\ now = 0
    /\ zone_settings \in ZoneSettingsInputs
    /\ gdp_event \in EventInputs
    /\ target_call = NoCall
    /\ IdleSched /\ IdleRamp /\ IdleFeed /\ IdleHp /\ IdleZones /\ IdleCycle /\ IdleExtra

\* time passes between two cycles; what the last cycle computed is dropped
Tick ==
    /\ now < Horizon
    /\ now' = now + TimeStep
    /\ target_call' = NoCall
    /\ selected' = NoCall
    /\ UNCHANGED <<zone_settings, gdp_event, peak_events, sched_vars, ramp_vars, hp_vars, zone_vars, cycle_vars, extra_vars>>

GetTargetTemperature ==
    /\ ~target_call.called
    /\ target_call' = [called |-> TRUE]
                        @@ get_target_temperature(zone_settings, gdp_event, now, None)
    /\ UNCHANGED <<now, zone_settings, gdp_event, sched_vars, ramp_vars, feed_vars, hp_vars, zone_vars, cycle_vars, extra_vars>>

NextTarget == Tick \/ GetTargetTemperature

SpecTarget == InitTarget /\ [][NextTarget]_vars

\* the arguments of the last call, as the resolver reads them
ZoneSchedule == Get(zone_settings, "schedule", EmptyDict)

ZoneFlexibility == Get(zone_settings, "flexibility", [upward |-> 0, downward |-> 0])

ZonePreconditioning == Get(zone_settings, "preconditioning", FALSE)

\* ScheduleResolver(h) for the zone, on the day type of now
Resolve(h) == get_target_from_schedule(h, DayTypeOf(now), ZoneSchedule)

\* the windows of the selected event, as the specification words them
ClaimInEvent == gdp_event # None /\ Val(gdp_event).datedebut <= now /\ now < Val(gdp_event).datefin

ClaimInPrecondition ==
    /\ gdp_event # None
    /\ Val(gdp_event).datedebut - 7200 <= now
    /\ now < Val(gdp_event).datedebut

ClaimInRecovery ==
    /\ gdp_event # None
    /\ Val(gdp_event).datefin <= now
    /\ now < Val(gdp_event).datefin + 3600

\* C1: with an event selected (start < end), the resolver takes exactly one
\* branch: event when start <= now < end; else precondition when the zone's
\* preconditioning flag is set and start-2h <= now < start; else recovery when
\* end <= now < end+1h; else normal. now = start is the event phase and
\* now = end is the recovery phase.
C1_PhasePriority ==
    (target_call.called /\ gdp_event # None) =>
        /\ Val(gdp_event).datedebut < Val(gdp_event).datefin
        /\ target_call.branch =
              (IF ClaimInEvent THEN "event"
               ELSE IF ZonePreconditioning /\ ClaimInPrecondition THEN "precondition"
               ELSE IF ClaimInRecovery THEN "recovery"
               ELSE "normal")
        /\ now = Val(gdp_event).datedebut => target_call.branch = "event"
        /\ now = Val(gdp_event).datefin => target_call.branch = "recovery"

\* a zone with preconditioning resolved at the very end of its event
C1_Witness ==
    /\ target_call.called
    /\ gdp_event # None
    /\ ZonePreconditioning
    /\ now = Val(gdp_event).datefin
    /\ target_call.branch = "recovery"

\* C2: whenever now lies in [start, end) of the selected event, the resolved
\* target is ScheduleResolver(now.hour) minus the zone's flexibility.downward,
\* for every zone and every schedule (no target where the schedule has none).
C2_EventTargetIsScheduleMinusDownward ==
    (target_call.called /\ ClaimInEvent) =>
        /\ ~target_call.raised
        /\ target_call.value =
              (IF Resolve(HourOf(now)) = None THEN None
               ELSE Some(Val(Resolve(HourOf(now))) - ZoneFlexibility.downward))

\* the hours [start.hour, end.hour) of an event, around midnight when the end
\* hour is the smaller one; an event within one hour has that hour
ClaimEventHours(ev) ==
    LET sh == HourOf(ev.datedebut)
        eh == HourOf(ev.datefin)
    IN  IF sh < eh THEN sh..(eh - 1)
        ELSE IF sh = eh THEN {sh}
        ELSE (sh..23) \cup (0..(eh - 1))

\* the largest of a non-empty set of numbers
MaxOf(S) == CHOOSE m \in S : \A x \in S : m >= x

\* RampCalculator as the specification words it, on optional numbers
ClaimRamp(total, elapsed, initial, target) ==
    IF elapsed <= 0 THEN initial
    ELSE IF elapsed >= total - 900 THEN target
    ELSE IF initial = None \/ target = None THEN None
    ELSE Some(RoundHalfEven(Val(initial) * (total - 900)
                              + (Val(target) - Val(initial)) * elapsed,
                            total - 900))

\* C3: in the precondition phase the target is the ramp over the two-hour
\* window from ScheduleResolver(precondition.start.hour) to flexibility.upward
\* plus the maximum of ScheduleResolver(h) over the hours h of
\* [start.hour, end.hour), for every event, also one that crosses midnight.
\* (A lookup that finds no slot counts as 0.0 here, as in the code.)
C3_PreconditionRampsToEventMaximum ==
    (target_call.called /\ target_call.branch = "precondition") =>
        LET ev == Val(gdp_event)
            max_event_target == MaxOf({OrZero(Resolve(h)) : h \in ClaimEventHours(ev)})
        IN  /\ ~target_call.raised
            /\ target_call.value =
                  ClaimRamp(7200, now - (ev.datedebut - 7200),
                            Some(OrZero(Resolve(HourOf(ev.datedebut - 7200)))),
                            Some(ZoneFlexibility.upward + max_event_target))

\* C4: in the recovery phase the target is the ramp over the one-hour window
\* from ScheduleResolver(recovery.start.hour - 1) to
\* ScheduleResolver(recovery.end.hour), for every end time and every schedule,
\* also one where a lookup finds no slot.
C4_RecoveryRampsBetweenScheduleValues ==
    (target_call.called /\ target_call.branch = "recovery") =>
        LET ev == Val(gdp_event)
        IN  /\ ~target_call.raised
            /\ target_call.value =
                  ClaimRamp(3600, now - ev.datefin,
                            Resolve(HourOf(ev.datefin) - 1),
                            Resolve(HourOf(ev.datefin + 3600)))

\* C5: with no event selected, or now outside the event, precondition and
\* recovery windows, or now in [start-2h, start) with the preconditioning flag
\* off, the target is exactly ScheduleResolver(now.hour) of the current day
\* type, with no flexibility applied.
C5_NormalTargetIsSchedule ==
    (/\ target_call.called
     /\ \/ gdp_event = None
        \/ ~ClaimInEvent /\ ~ClaimInPrecondition /\ ~ClaimInRecovery
        \/ ClaimInPrecondition /\ ~ZonePreconditioning)
    => /\ ~target_call.raised
       /\ target_call.branch = "normal"
       /\ target_call.value = get_target_from_schedule(HourOf(now), DayTypeOf(now), ZoneSchedule)

\* a zone without preconditioning but with a downward flexibility, resolved in
\* the two hours before its event
C5_Witness ==
    /\ target_call.called
    /\ ClaimInPrecondition
    /\ ~ZonePreconditioning
    /\ ZoneFlexibility.downward > 0
    /\ target_call.value # None
    /\ target_call.value = Resolve(HourOf(now))

----------------------------------------------------------------------------
(* SpecFeed: retrieve_gdp_event on a bounded feed as the clock advances *)

\* most events in the feed
MaxEvents == 2

FeedStartHours == {8, 16}

FeedDurations == {4 * SecondsPerHour, 12 * SecondsPerHour}

\* events of day 0 and day 1; 8h + 12h overlaps 16h + 4h and both end at 20h
FeedEventInputs ==
    {PeakEvent(d * SecondsPerDay + h * SecondsPerHour,
               d * SecondsPerDay + h * SecondsPerHour + len) :
        d \in {0, 1}, h \in FeedStartHours, len \in FeedDurations}

InitFeed ==
    /\ now = 0
    /\ peak_events \in SeqsUpTo(FeedEventInputs, MaxEvents)
    /\ selected = NoCall
    /\ IdleSched /\ IdleRamp /\ IdleTarget /\ IdleHp /\ IdleZones /\ IdleCycle /\ IdleExtra

RetrieveGdpEvent ==
    /\ ~selected.called
    /\ selected' = [called |-> TRUE, event |-> retrieve_gdp_event(peak_events, now)]
    /\ UNCHANGED <<now, peak_events, sched_vars, ramp_vars, target_vars, hp_vars, zone_vars, cycle_vars, extra_vars>>

NextFeed == Tick \/ RetrieveGdpEvent

SpecFeed == InitFeed /\ [][NextFeed]_vars

\* the events of the feed that start today
FeedToday == {peak_events[i] : i \in {k \in 1..Len(peak_events) :
                                         DateOf(peak_events[k].datedebut) = DateOf(now)}}

\* ongoing as the code's comment has it: started and not past its end
\* (datedebut <= now <= datefin)
FeedOngoing == {e \in FeedToday : e.datedebut <= now /\ now <= e.datefin}

FeedUpcoming == {e \in FeedToday : now < e.datedebut}

\* C6: retrieve_gdp_event returns at most one event, one that starts today:
\* an event ongoing at now if there is one, otherwise the upcoming event with
\* the earliest start, otherwise none; for any feed in any order, overlapping
\* events included.
C6_OngoingElseNextUpcoming ==
    selected.called =>
        /\ Cardinality(selected.event) <= 1
        /\ selected.event \subseteq FeedToday
        /\ FeedOngoing # {} => (selected.event # None /\ selected.event \subseteq FeedOngoing)
        /\ (FeedOngoing = {} /\ FeedUpcoming # {}) =>
              /\ selected.event # None
              /\ selected.event \subseteq FeedUpcoming
              /\ \A e \in FeedUpcoming : Val(selected.event).datedebut <= e.datedebut
        /\ (FeedOngoing = {} /\ FeedUpcoming = {}) => selected.event = None

\* a feed that lists a later event of today before an earlier one, read before
\* either has started
C6_Witness ==
    /\ selected.called
    /\ Len(peak_events) = 2
    /\ peak_events[1].datedebut > peak_events[2].datedebut
    /\ DateOf(peak_events[1].datedebut) = DateOf(now)
    /\ FeedOngoing = {}
    /\ selected.event = Some(peak_events[2])

----------------------------------------------------------------------------
(* SpecMode: the mode and COP selection of get_control_actions *)

\* the quadratic through (-10, 2.0), (0, 3.0), (10, 3.5) for heating and the
\* one through (20, 4.0), (30, 3.0), (40, 2.5) for cooling
fitted_cop_models == [heat |-> <<0 - 25, 750, 30000>>, cool |-> <<25, 0 - 2250, 75000>>]

\* two constant curves
flat_cop_models == [heat |-> <<0, 0, 20000>>, cool |-> <<0, 0, 30000>>]

CopModelInputs == {fitted_cop_models, flat_cop_models}

\* 0 C to 30 C by half degrees, or no reading
OutsideInputs == {None} \cup {Some(k * 50) : k \in 0..60}

InitMode ==
    /\ outside_temperature \in OutsideInputs
    /\ hp_call = NoCall
    /\ now = 0
    /\ IdleSched /\ IdleRamp /\ IdleTarget /\ IdleFeed /\ IdleZones /\ IdleCycle /\ IdleExtra

SelectMode ==
    /\ ~hp_call.called
    /\ \E models \in CopModelInputs :
          hp_call' = [called |-> TRUE, heat_pump_cop_models |-> models]
                       @@ SelectModeAndCop(outside_temperature, models)
    /\ UNCHANGED <<outside_temperature, now, sched_vars, ramp_vars, target_vars, feed_vars, zone_vars, cycle_vars, extra_vars>>

NextMode == SelectMode

SpecMode == InitMode /\ [][NextMode]_vars

\* C10: the heat-pump mode is cool when outdoor_temp > 20, heat when
\* outdoor_temp < 10 and off otherwise (10 and 20 give off; 25 cool, 5 heat,
\* 15 off); in mode off the COP is 0.0 and no COP model is evaluated.
C10_ModeThresholdsAndOffCop ==
    (hp_call.called /\ outside_temperature # None) =>
        LET t == Val(outside_temperature)
        IN  /\ ~hp_call.raised
            /\ hp_call.heat_pump_mode =
                  Some(IF t > 2000 THEN "cool" ELSE IF t < 1000 THEN "heat" ELSE "off")
            /\ t \in {1000, 1500, 2000} => hp_call.heat_pump_mode = Some("off")
            /\ t = 2500 => hp_call.heat_pump_mode = Some("cool")
            /\ t = 500 => hp_call.heat_pump_mode = Some("heat")
            /\ hp_call.heat_pump_mode = Some("off") =>
                  /\ hp_call.heat_pump_cop = Some(0)
                  /\ hp_call.evaluated = {}
            /\ hp_call.heat_pump_mode # Some("off") =>
                  hp_call.evaluated = hp_call.heat_pump_mode

\* the call at exactly 20 C: off, COP 0.0, no model evaluated
C10_Witness ==
    /\ hp_call.called
    /\ outside_temperature = Some(2000)
    /\ hp_call.heat_pump_mode = Some("off")
    /\ hp_call.heat_pump_cop = Some(0)
    /\ hp_call.evaluated = {}

----------------------------------------------------------------------------
(* ZoneClassifier: select_zones_hp_impact *)

\* config["hvac_systems"] is a sequence of entries, in the order of the file
Entry(zone, settings) == [zone |-> zone, settings |-> settings]

\* hvac_systems.keys()
ZoneIds(hvac) == {hvac[i].zone : i \in 1..Len(hvac)}

\* hvac_systems.get(zone_id, {})
SettingsOf(hvac, zone_id) ==
    IF zone_id \in ZoneIds(hvac)
    THEN (CHOOSE e \in {hvac[i] : i \in 1..Len(hvac)} : e.zone = zone_id).settings
    ELSE EmptyDict

\* the entity ids that contain "heat_pump"
HeatPumpEntities == {"climate.heat_pump", "climate.heat_pump_basement"}

\* "heat_pump" in zone
IsHeatPumpEntity(zone) == zone \in HeatPumpEntities

\* the mutant: a zone with factor 0 counts as impacted
HasImpact_ge(impact) == impact >= 0

\* impact > 0.0
HasImpact(impact) == impact > 0

\* the loop body: NotSelected for continue, or the value stored in result[zone]
NotSelected == None

Classify(entry, with_impact, enabled) ==
    LET impact == Get(entry.settings, "heat_pump_impact", 0)
    IN  IF IsHeatPumpEntity(entry.zone) THEN NotSelected
        ELSE IF ~enabled THEN (IF with_impact THEN NotSelected ELSE Some(0))
        ELSE IF HasImpact(impact) = with_impact THEN Some(impact)
        ELSE NotSelected

\* the result dict, as the sequence of its items in insertion order
select_zones_hp_impact(with_impact, enabled, hvac) ==
    LET kept == SelectSeq(hvac, LAMBDA e : Classify(e, with_impact, enabled) # NotSelected)
    IN  [i \in 1..Len(kept) |->
            [zone |-> kept[i].zone, impact |-> Val(Classify(kept[i], with_impact, enabled))]]

\* dict.keys() of such a result
Keys(items) == {items[i].zone : i \in 1..Len(items)}

----------------------------------------------------------------------------
(* SpecZones: select_zones_hp_impact on bounded configurations *)

\* a heat-pump entity carries one schedule per hvac mode
HeatPumpSettings ==
    [heating |-> [schedule |-> default_schedule], cooling |-> [schedule |-> evening_schedule]]

ImpactInputs == {0 - 50, 0, 50, 100}

\* a zone with its schedule alone, or with a factor
ClassifiedSettingsInputs ==
    {[schedule |-> default_schedule]}
      \cup {[heat_pump_impact |-> k, schedule |-> default_schedule] : k \in ImpactInputs}

ZoneIdInputs == {"climate.living", "climate.bedroom"}

EntryInputs ==
    {Entry(z, s) : z \in ZoneIdInputs, s \in ClassifiedSettingsInputs}
      \cup {Entry(z, HeatPumpSettings) : z \in HeatPumpEntities}

\* most entries of hvac_systems
MaxZones == 3

\* the keys of a mapping are distinct
DistinctZones(hvac) == \A i, j \in 1..Len(hvac) : hvac[i].zone = hvac[j].zone => i = j

HvacInputs == {h \in SeqsUpTo(EntryInputs, MaxZones) : DistinctZones(h)}

InitZones ==
    /\ hvac_systems \in HvacInputs
    /\ heat_pump_enabled \in BOOLEAN
    /\ zones_call = NoCall
    /\ now = 0
    /\ IdleSched /\ IdleRamp /\ IdleTarget /\ IdleFeed /\ IdleHp /\ IdleCycle /\ IdleExtra

\* the two calls get_control_actions makes in one cycle
SelectZonesHpImpact ==
    /\ ~zones_call.called
    /\ zones_call' =
          [called |-> TRUE,
           with_impact    |-> select_zones_hp_impact(TRUE, heat_pump_enabled, hvac_systems),
           without_impact |-> select_zones_hp_impact(FALSE, heat_pump_enabled, hvac_systems)]
    /\ UNCHANGED <<hvac_systems, heat_pump_enabled, now, sched_vars, ramp_vars,
                   target_vars, feed_vars, hp_vars, cycle_vars, extra_vars>>

NextZones == SelectZonesHpImpact

SpecZones == InitZones /\ [][NextZones]_vars

\* the configured zones that are not heat-pump entities
ClaimZones == {z \in ZoneIds(hvac_systems) : z \notin HeatPumpEntities}

\* a zone's configured factor, 0.0 when it has none
ClaimImpact(z) ==
    LET s == SettingsOf(hvac_systems, z)
    IN  IF "heat_pump_impact" \in DOMAIN s THEN s.heat_pump_impact ELSE 0

\* C11: the results for with_impact=True and with_impact=False partition the
\* configured zones that are not heat-pump entities; with the feature enabled
\* with_impact=True holds exactly the zones with heat_pump_impact > 0
\* (default 0.0); heat-pump entities are in neither; with the feature disabled
\* with_impact=True is empty and with_impact=False holds every zone.
C11_ImpactPartition ==
    zones_call.called =>
        LET with    == Keys(zones_call.with_impact)
            without == Keys(zones_call.without_impact)
        IN  /\ with \cup without = ClaimZones
            /\ with \cap without = {}
            /\ Len(zones_call.with_impact) = Cardinality(with)
            /\ Len(zones_call.without_impact) = Cardinality(without)
            /\ heat_pump_enabled => with = {z \in ClaimZones : ClaimImpact(z) > 0}
            /\ ~heat_pump_enabled => (with = {} /\ without = ClaimZones)

\* a configuration with a heat-pump entity, a zone with factor 0 and a zone
\* with a positive factor, classified with the feature enabled
C11_Witness ==
    /\ zones_call.called
    /\ heat_pump_enabled
    /\ ZoneIds(hvac_systems) \cap HeatPumpEntities # {}
    /\ \E z \in ClaimZones : "heat_pump_impact" \in DOMAIN SettingsOf(hvac_systems, z)
                              /\ ClaimImpact(z) = 0
    /\ Keys(zones_call.with_impact) # {}
    /\ Keys(zones_call.without_impact) # {}

----------------------------------------------------------------------------
(* ControlDecisionEngine: _get_zone_metrics, _control_logic_hp,            *)
(* _control_logic_thermostat and get_control_actions                       *)

\* utils.get_target_temperature as the interface calls it for a zone of the
\* configuration: the zone's settings are read from config.yaml, and the event
\* is the one selected for the cycle (the interface of src/ passes no event;
\* the one main.py imports, controller/ha_interface, is not in src/)
zone_target_temperature(hvac, zone_id, event, t, hvac_mode) ==
    get_target_temperature(SettingsOf(hvac, zone_id), event, t, hvac_mode)

\* devices_state.get(entity, {}).get(field)
Reported(snapshot, entity, field) ==
    IF entity \in DOMAIN snapshot THEN Get(snapshot[entity], field, None) ELSE None

\* Setpoints (the values control actions carry and thermostats report) are in
\* twelfths of a hundredth of a degree, so that np.mean of up to four readings
\* in hundredths is a whole number
SetpointUnit == 12

\* a reading or a target as a setpoint
Fine(v) == v * SetpointUnit

FineOpt(x) == IF x = None THEN None ELSE Some(Fine(Val(x)))

\* float("nan"): what np.mean returns for an empty list
NaN == 0 - 999999

\* a + b on floats
Plus(a, b) == IF a = NaN THEN NaN ELSE a + b

\* a < b on floats: any comparison with nan is False
Less(a, b) == a # NaN /\ b # NaN /\ a < b

RECURSIVE SumOf(_, _)
SumOf(values, i) == IF i > Len(values) THEN 0 ELSE values[i] + SumOf(values, i + 1)

\* np.mean of a list of readings, as a setpoint
Mean(values) == IF values = << >> THEN NaN ELSE Fine(SumOf(values, 1)) \div Len(values)

\* one iteration of the loop of _get_zone_metrics: the zone is skipped when it
\* has no inside reading or no target; the target lookup may raise
ZoneMetric(item, inside_temperature, target_temperature) ==
    IF inside_temperature = None THEN [raised |-> FALSE, metric |-> None]
    ELSE IF target_temperature.raised THEN [raised |-> TRUE, metric |-> None]
    ELSE IF target_temperature.value = None THEN [raised |-> FALSE, metric |-> None]
    ELSE [raised |-> FALSE,
          metric |-> Some([zone |-> item.zone,
                           inside_temperature |-> Val(inside_temperature),
                           target_temperature |-> Val(target_temperature.value),
                           heat_pump_impact |-> item.impact])]

\* zone_metrics out of the iterations: the sequence of the items kept; raised
\* when a target lookup raised
ZoneMetrics(each) ==
    LET kept == SelectSeq(each, LAMBDA m : m.metric # None)
    IN  IF \E i \in 1..Len(each) : each[i].raised
        THEN [raised |-> TRUE, metrics |-> << >>]
        ELSE [raised |-> FALSE, metrics |-> [i \in 1..Len(kept) |-> Val(kept[i].metric)]]

\* for zone_id in zones_to_check.keys(): the inside reading of the snapshot and
\* the target of the zone
_get_zone_metrics(zones_to_check, snapshot, hvac, event, t) ==
    ZoneMetrics([i \in 1..Len(zones_to_check) |->
                    ZoneMetric(zones_to_check[i],
                               Reported(snapshot, zones_to_check[i].zone, "current_temperature"),
                               zone_target_temperature(hvac, zones_to_check[i].zone,
                                                       event, t, None))])

\* an item of control_actions: the heat pump's action is a dict with a state
\* and a setpoint, a zone's action is its setpoint alone
HeatPumpAction(heat_pump_mode, setpoint) ==
    [id |-> "heat_pump", state |-> Some(heat_pump_mode), setpoint |-> setpoint]

ZoneAction(zone_id, setpoint) == [id |-> zone_id, state |-> None, setpoint |-> Some(setpoint)]

\* one degree, as a setpoint
Degree == Fine(100)

\* heat_pump_cop >= 2.5, in ten-thousandths
CopThreshold == 25000

\* the mutant: a COP of exactly 2.5 does not count as sufficient
CopSufficient_gt(heat_pump_cop) == heat_pump_cop > CopThreshold

\* heat_pump_cop >= 2.5
CopSufficient(heat_pump_cop) == heat_pump_cop >= CopThreshold

\* control_actions[zone_id] = 5
CoolZoneSetpoint == 5 * Degree

\* control_actions[zone_id] = 10
OffZoneSetpoint == 10 * Degree

\* the heat pump's setpoint in mode cool
CoolHeatPumpSetpoint(inside_temp, target_temp) ==
    IF Less(target_temp, inside_temp) THEN Plus(target_temp, 0 - Degree) ELSE target_temp

\* the heat pump's setpoint in mode heat
HeatHeatPumpSetpoint(inside_temp, target_temp) ==
    IF Less(inside_temp, target_temp) THEN Plus(target_temp, Degree) ELSE target_temp

\* the setpoint every zone of the state gets in mode heat
HeatZoneSetpoint(inside_temp, target_temp, heat_pump_cop) ==
    IF Less(inside_temp, target_temp)
    THEN (IF CopSufficient(heat_pump_cop) THEN Plus(target_temp, 0 - Degree) ELSE target_temp)
    ELSE Plus(target_temp, 0 - 2 * Degree)

\* control_actions of the heat-pump pass: the heat pump's item first, then one
\* item per zone of the state
_control_logic_hp(zones_with_hp_impact_state, heat_pump_mode, heat_pump_cop) ==
    LET n == Len(zones_with_hp_impact_state)
        inside_temp ==
            Mean([i \in 1..n |-> zones_with_hp_impact_state[i].inside_temperature])
        target_temp ==
            Mean([i \in 1..n |-> zones_with_hp_impact_state[i].target_temperature])
        heat_pump_setpoint ==
            CASE heat_pump_mode = "heat" -> Some(HeatHeatPumpSetpoint(inside_temp, target_temp))
              [] heat_pump_mode = "cool" -> Some(CoolHeatPumpSetpoint(inside_temp, target_temp))
              [] OTHER -> None
        zone_setpoint ==
            CASE heat_pump_mode = "heat" ->
                     HeatZoneSetpoint(inside_temp, target_temp, heat_pump_cop)
              [] heat_pump_mode = "cool" -> CoolZoneSetpoint
              [] OTHER -> OffZoneSetpoint
    IN  << HeatPumpAction(heat_pump_mode, heat_pump_setpoint) >>
          \o [i \in 1..n |-> ZoneAction(zones_with_hp_impact_state[i].zone, zone_setpoint)]

\* control_actions[zone_id] = target_temp
_control_logic_thermostat(zones_without_hp_impact_state) ==
    [i \in 1..Len(zones_without_hp_impact_state) |->
        ZoneAction(zones_without_hp_impact_state[i].zone,
                   Fine(zones_without_hp_impact_state[i].target_temperature))]

\* heat_pump_mode + "ing"
HvacModeKey(heat_pump_mode) ==
    CASE heat_pump_mode = "heat" -> "heating"
      [] heat_pump_mode = "cool" -> "cooling"
      [] OTHER -> "offing"

\* get_control_actions did not return: the exception, and no actions
ControlRaised(error) ==
    [raised |-> TRUE, error |-> error, heat_pump_mode |-> None, heat_pump_cop |-> None,
     hp_actions |-> << >>, thermostat_actions |-> << >>, actions |-> << >>]

\* no zone is impacted: the virtual heat_pump entity alone, with the target of
\* the heat pump's own schedule as setpoint
FallbackPass(heat_pump_mode, hp_target_temperature) ==
    [raised |-> hp_target_temperature.raised,
     actions |-> << HeatPumpAction(heat_pump_mode, FineOpt(hp_target_temperature.value)) >>]

\* the decision table on the state of the impacted zones
TablePass(zones_with_hp_impact_state, heat_pump_mode, heat_pump_cop) ==
    [raised |-> zones_with_hp_impact_state.raised,
     actions |-> _control_logic_hp(zones_with_hp_impact_state.metrics,
                                   heat_pump_mode, heat_pump_cop)]

\* the heat-pump pass for a known mode: the virtual heat_pump entity alone when
\* no zone is impacted, else the decision table on the impacted zones' metrics
HeatPumpPass(snapshot, heat_pump_mode, heat_pump_cop, hvac, enabled, event, t) ==
    IF select_zones_hp_impact(TRUE, enabled, hvac) = << >>
    THEN FallbackPass(heat_pump_mode,
                      zone_target_temperature(hvac, "climate.heat_pump", event, t,
                                              Some(HvacModeKey(heat_pump_mode))))
    ELSE TablePass(_get_zone_metrics(select_zones_hp_impact(TRUE, enabled, hvac),
                                     snapshot, hvac, event, t),
                   heat_pump_mode, heat_pump_cop)

\* the thermostat pass on the state of the zones without impact
ThermostatActions(zones_without_hp_impact_state) ==
    [raised |-> zones_without_hp_impact_state.raised,
     actions |-> _control_logic_thermostat(zones_without_hp_impact_state.metrics)]

\* the thermostat pass: no action at all when no zone is without impact
ThermostatPass(snapshot, hvac, enabled, event, t) ==
    IF select_zones_hp_impact(FALSE, enabled, hvac) = << >>
    THEN [raised |-> FALSE, actions |-> << >>]
    ELSE ThermostatActions(_get_zone_metrics(select_zones_hp_impact(FALSE, enabled, hvac),
                                             snapshot, hvac, event, t))

\* control_actions of the two passes merged, the heat pump's first; a target
\* lookup that raised in either pass leaves the method
MergedActions(head, hp, th) ==
    IF hp.raised \/ th.raised THEN ControlRaised("TypeError")
    ELSE [raised |-> FALSE, error |-> "",
          heat_pump_mode |-> head.heat_pump_mode,
          heat_pump_cop |-> head.heat_pump_cop,
          hp_actions |-> hp.actions,
          thermostat_actions |-> th.actions,
          actions |-> hp.actions \o th.actions]

\* the two passes once the mode and the COP are known
BothPasses(head, snapshot, hvac, enabled, event, t) ==
    IF head.raised THEN ControlRaised("ValueError")
    ELSE MergedActions(head,
                       HeatPumpPass(snapshot, Val(head.heat_pump_mode),
                                    Val(head.heat_pump_cop), hvac, enabled, event, t),
                       ThermostatPass(snapshot, hvac, enabled, event, t))

\* the snapshot maps entity ids to their fields; the outdoor reading is that of
\* weather.home. The result keeps the actions of each pass next to the merged
\* dict, whose items are in insertion order.
get_control_actions(snapshot, heat_pump_cop_models, hvac, enabled, event, t) ==
    IF "weather.home" \notin DOMAIN snapshot THEN ControlRaised("KeyError")
    ELSE BothPasses(SelectModeAndCop(snapshot["weather.home"].temperature,
                                     heat_pump_cop_models),
                    snapshot, hvac, enabled, event, t)

----------------------------------------------------------------------------
(* Orchestrator: execute_control_actions *)

\* the json of one call of self.set, and whether the platform accepted it
Command(service, entity_id, value, accepted) ==
    [service |-> service, entity_id |-> entity_id, value |-> value, accepted |-> accepted]

\* the mutant: the setpoint of a heat pump that is off is compared and sent
SkipHeatPumpSetpoint_never(action) == FALSE

\* action["state"] == "off"
SkipHeatPumpSetpoint(action) == action.state = Some("off")

\* the mutant: a setpoint is sent whether or not the device reports it already
SetpointUnchanged_never(setpoint, snapshot, entity_id) == FALSE

\* setpoint == devices_state.get(entity_id, {}).get("temperature"); nan equals
\* nothing
SetpointUnchanged(setpoint, snapshot, entity_id) ==
    setpoint # Some(NaN) /\ setpoint = Reported(snapshot, entity_id, "temperature")

\* self.set: response.raise_for_status() raises when the platform answers with
\* an error; a temperature that is not a number (None, nan) is always refused
Accepts(rejects, entity_id, value) ==
    entity_id \notin rejects /\ value # None /\ value # Some(NaN)

\* action["state"] == devices_state.get("climate.heat_pump", {}).get("state")
StateUnchanged(action, snapshot) ==
    action.state = Reported(snapshot, "climate.heat_pump", "state")

\* the entity a control action addresses: "climate." + device_id for the heat pump
EntityOf(action) == IF action.id = "heat_pump" THEN "climate.heat_pump" ELSE action.id

\* one iteration of the loop: the calls of self.set it makes, and the exception
\* that ends it. A heat-pump state that differs from the reported one raises
\* KeyError in the log line (the action has no "mode" key) before
\* set_hvac_mode is called; a rejected call raises HTTPError in self.set.
ExecuteOne(action, snapshot, rejects) ==
    LET entity_id == EntityOf(action)
        accepted == Accepts(rejects, entity_id, action.setpoint)
        set_temperature == << Command("set_temperature", entity_id, action.setpoint, accepted) >>
        setpoint_step ==
            IF SetpointUnchanged(action.setpoint, snapshot, entity_id)
            THEN [commands |-> << >>, error |-> ""]
            ELSE [commands |-> set_temperature,
                  error |-> IF accepted THEN "" ELSE "HTTPError"]
    IN  IF action.id = "heat_pump"
        THEN IF ~StateUnchanged(action, snapshot) THEN [commands |-> << >>, error |-> "KeyError"]
             ELSE IF SkipHeatPumpSetpoint(action) THEN [commands |-> << >>, error |-> ""]
             ELSE setpoint_step
        ELSE setpoint_step

RECURSIVE ExecuteFrom(_, _, _, _, _)
\* for device_id, action in control_actions.items(): the loop ends at the
\* first exception, which leaves the method
ExecuteFrom(control_actions, i, snapshot, rejects, commands) ==
    IF i > Len(control_actions)
    THEN [raised |-> FALSE, error |-> "", commands |-> commands, processed |-> i - 1]
    ELSE LET one == ExecuteOne(control_actions[i], snapshot, rejects)
         IN  IF one.error # ""
             THEN [raised |-> TRUE, error |-> one.error,
                   commands |-> commands \o one.commands, processed |-> i - 1]
             ELSE ExecuteFrom(control_actions, i + 1, snapshot, rejects,
                              commands \o one.commands)

\* commands are the calls of self.set in order; processed counts the actions
\* whose iteration completed
execute_control_actions(control_actions, snapshot, rejects) ==
    IF control_actions = << >>
    THEN [raised |-> FALSE, error |-> "", commands |-> << >>, processed |-> 0]
    ELSE ExecuteFrom(control_actions, 1, snapshot, rejects, << >>)

----------------------------------------------------------------------------
(* SpecCycle: main() running _main_loop on a bounded installation *)

\* an impacted zone with both flexibilities and preconditioning
impacted_zone ==
    [heat_pump_impact |-> 50, flexibility |-> [upward |-> 100, downward |-> 200],
     preconditioning |-> TRUE, schedule |-> default_schedule]

\* an impacted zone whose schedule has weekdays only and no slot for the night
impacted_gap_zone ==
    [heat_pump_impact |-> 100, flexibility |-> [upward |-> 0, downward |-> 0],
     preconditioning |-> FALSE, schedule |-> daytime_schedule]

\* a zone the heat pump does not reach, as update_config_with_zones adds it,
\* with a downward flexibility set by the user
plain_zone ==
    [heat_pump_impact |-> 0, flexibility |-> [upward |-> 0, downward |-> 200],
     preconditioning |-> FALSE, schedule |-> default_schedule]

plain_gap_zone ==
    [heat_pump_impact |-> 0, flexibility |-> [upward |-> 100, downward |-> 200],
     preconditioning |-> TRUE, schedule |-> daytime_schedule]

CycleZoneSettings == {impacted_zone, impacted_gap_zone, plain_zone, plain_gap_zone}

\* two zones and the heat pump, in two file orders; a zone alone
CycleHvacInputs ==
    {<< Entry("climate.living", a), Entry("climate.bedroom", b),
        Entry("climate.heat_pump", HeatPumpSettings) >> : a, b \in CycleZoneSettings}
      \cup {<< Entry("climate.heat_pump", HeatPumpSettings),
               Entry("climate.bedroom", plain_zone), Entry("climate.living", a) >> :
                  a \in CycleZoneSettings}
      \cup {<< Entry("climate.living", a) >> : a \in CycleZoneSettings}

\* a COP of exactly 2.5 in heating
threshold_cop_models == [heat |-> <<0, 0, CopThreshold>>, cool |-> <<0, 0, 30000>>]

CycleCopModelInputs == {fitted_cop_models, flat_cop_models, threshold_cop_models}

\* no event, or one event on day 0: from 18h to 22h, the hour at which the
\* default weekday schedule changes, or from 20h to midnight, over the hours
\* for which the daytime schedule has no slot
CycleFeedInputs ==
    {<< >>, << PeakEvent(18 * SecondsPerHour, 22 * SecondsPerHour) >>,
     << PeakEvent(20 * SecondsPerHour, 24 * SecondsPerHour) >>}

\* day 0 at 13h00, 16h00, 17h55, 19h00, 21h55 and 22h00, and day 1 (a weekend
\* day) at 12h00
CycleInstants ==
    {13 * SecondsPerHour, 16 * SecondsPerHour, 18 * SecondsPerHour - TimeStep,
     19 * SecondsPerHour, 22 * SecondsPerHour - TimeStep, 22 * SecondsPerHour,
     SecondsPerDay + 12 * SecondsPerHour}

\* weather.home is not among the devices, has no reading, or reads 0, 15 or 25 C
WeatherInputs ==
    {EmptyDict} \cup {[e \in {"weather.home"} |-> [temperature |-> r]] :
                         r \in {None, Some(0), Some(1500), Some(2500)}}

\* a climate entity of the snapshot
ClimateState(state, current_temperature, temperature) ==
    [state |-> state, current_temperature |-> current_temperature, temperature |-> temperature]

\* the living room may have no inside reading; the thermostats report the
\* setpoints 21 and 10, the heat pump its mode and the setpoint 22
ClimateInputs ==
    {[e \in {"climate.living", "climate.bedroom", "climate.heat_pump"} |->
         CASE e = "climate.living"  -> ClimateState(Some("heat"), inside, Some(Fine(2100)))
           [] e = "climate.bedroom" -> ClimateState(Some("heat"), inside2, Some(Fine(1000)))
           [] OTHER                 -> ClimateState(Some(mode), None, Some(Fine(2200)))] :
        inside \in {None, Some(1900), Some(2300)},
        inside2 \in {Some(1900), Some(2300)},
        mode \in {"off", "heat", "cool"}}

SnapshotInputs == {w @@ c : w \in WeatherInputs, c \in ClimateInputs}

\* which service calls the platform rejects in a cycle
RejectInputs == {{}, {"climate.living"}, {"climate.heat_pump"}}

\* most cycles of a run
MaxCycles == 2

\* main(): where the loop stands, the number of the cycle, the COP models built
\* before the loop, and what the cycle before computed and sent
Process(status, cycle, models, previous, sent) ==
    [status |-> status, cycle |-> cycle, heat_pump_cop_models |-> models,
     previous |-> previous, sent |-> sent]

InitCycle ==
    /\ hvac_systems \in CycleHvacInputs
    /\ heat_pump_enabled \in BOOLEAN
    /\ zones_call = NoCall
    /\ peak_events \in CycleFeedInputs
    /\ selected = NoCall
    /\ now \in CycleInstants
    /\ devices_state = EmptyDict
    /\ rejected = {}
    /\ control_call = NoCall
    /\ exec_call = NoCall
    /\ \E models \in CycleCopModelInputs : process = Process("fetch", 1, models, << >>, << >>)
    /\ zone_settings = EmptyDict /\ gdp_event = None /\ target_call = NoCall
    /\ IdleSched /\ IdleRamp /\ IdleHp /\ IdleExtra

\* the snapshot once the devices have applied the calls the platform accepted
RECURSIVE Applied(_, _, _)
Applied(snapshot, commands, i) ==
    IF i > Len(commands) THEN snapshot
    ELSE LET c == commands[i]
             after == IF c.accepted /\ c.entity_id \in DOMAIN snapshot
                      THEN [snapshot EXCEPT ![c.entity_id].temperature = c.value]
                      ELSE snapshot
         IN  Applied(after, commands, i + 1)

\* devices_state = ha_interface.get_device_state(devices_id=devices_list): any
\* snapshot in the first cycle; afterwards the readings of the cycle before,
\* with the setpoints the devices were sent
GetDeviceState ==
    /\ process.status = "fetch"
    /\ IF process.cycle = 1
       THEN devices_state' \in SnapshotInputs
       ELSE devices_state' = Applied(devices_state, process.sent, 1)
    /\ process' = [process EXCEPT !.status = "compute"]
    /\ UNCHANGED <<now, rejected, control_call, exec_call, zone_vars,
                   sched_vars, ramp_vars, target_vars, feed_vars, hp_vars, extra_vars>>

\* control_actions = ha_interface.get_control_actions(...), with the peak event
\* selected for this cycle; an exception leaves the loop and ends main()
GetControlActions ==
    /\ process.status = "compute"
    /\ gdp_event' = retrieve_gdp_event(peak_events, now)
    /\ control_call' = [called |-> TRUE]
                          @@ get_control_actions(devices_state, process.heat_pump_cop_models,
                                                 hvac_systems, heat_pump_enabled,
                                                 gdp_event', now)
    /\ process' = [process EXCEPT
                      !.status = IF control_call'.raised THEN "stopped" ELSE "execute"]
    /\ UNCHANGED <<now, devices_state, rejected, exec_call, hvac_systems,
                   heat_pump_enabled, zones_call, zone_settings, target_call,
                   sched_vars, ramp_vars, feed_vars, hp_vars, extra_vars>>

\* ha_interface.execute_control_actions(...): an exception leaves the loop
ExecuteControlActions ==
    /\ process.status = "execute"
    /\ \E rejects \in RejectInputs :
          /\ rejected' = rejects
          /\ exec_call' = [called |-> TRUE]
                             @@ execute_control_actions(control_call.actions, devices_state,
                                                        rejects)
    /\ process' = [process EXCEPT
                      !.status = IF exec_call'.raised THEN "stopped" ELSE "wait"]
    /\ UNCHANGED <<now, devices_state, control_call, zone_vars,
                   sched_vars, ramp_vars, target_vars, feed_vars, hp_vars, extra_vars>>

\* schedule.run_pending() at the next 5-minute mark: _main_loop runs again
RunPending ==
    /\ process.status = "wait"
    /\ process.cycle < MaxCycles
    /\ now' = now + TimeStep
    /\ process' = [process EXCEPT !.status = "fetch", !.cycle = @ + 1,
                                  !.previous = control_call.actions,
                                  !.sent = exec_call.commands]
    /\ control_call' = NoCall
    /\ exec_call' = NoCall
    /\ UNCHANGED <<devices_state, rejected, zone_vars,
                   sched_vars, ramp_vars, target_vars, feed_vars, hp_vars, extra_vars>>

NextCycle == GetDeviceState \/ GetControlActions \/ ExecuteControlActions \/ RunPending

SpecCycle == InitCycle /\ [][NextCycle]_vars

----------------------------------------------------------------------------
(* The claims on a cycle *)

\* the target the resolver gives a zone in this cycle
CycleTarget(z) == zone_target_temperature(hvac_systems, z, gdp_event, now, None)

\* devices_state["weather.home"]["temperature"], None when there is none
OutdoorReading ==
    IF "weather.home" \in DOMAIN devices_state
    THEN devices_state["weather.home"].temperature ELSE None

\* the zones classified as impacted, and the others
ImpactedZones == Keys(select_zones_hp_impact(TRUE, heat_pump_enabled, hvac_systems))

IndependentZones == Keys(select_zones_hp_impact(FALSE, heat_pump_enabled, hvac_systems))

\* a zone has an inside reading and a target in this cycle
HasMetrics(z) ==
    /\ Reported(devices_state, z, "current_temperature") # None
    /\ ~CycleTarget(z).raised
    /\ CycleTarget(z).value # None

\* the impacted zones the decision table works on
MeasuredImpacted == {z \in ImpactedZones : HasMetrics(z)}

RECURSIVE SetSum(_, _)
\* the sum of f over a finite set
SetSum(f(_), S) ==
    IF S = {} THEN 0
    ELSE LET x == CHOOSE y \in S : TRUE IN f(x) + SetSum(f, S \ {x})

InsideOf(z) == Val(Reported(devices_state, z, "current_temperature"))

TargetOf(z) == Val(CycleTarget(z).value)

\* the sums behind the two means, over the same zones
InsideSum == SetSum(InsideOf, MeasuredImpacted)

TargetSum == SetSum(TargetOf, MeasuredImpacted)

\* the actions of the last call, per entity
ActionsOf(actions, id) == {actions[i] : i \in {k \in 1..Len(actions) : actions[k].id = id}}

\* setpoint s (a setpoint) is the mean target plus d degrees
IsMeanTargetPlus(s, d) ==
    /\ s # None
    /\ Val(s) * Cardinality(MeasuredImpacted)
          = SetpointUnit * (TargetSum + d * 100 * Cardinality(MeasuredImpacted))

\* every zone the decision table works on has one action, with setpoint s
EveryMeasuredZoneGets(ok(_)) ==
    \A z \in MeasuredImpacted :
        LET a == ActionsOf(control_call.hp_actions, z)
        IN  Cardinality(a) = 1 /\ \A x \in a : ok(x.setpoint)

\* C12: in heat mode, with inside and target the means over the impacted
\* zones: if inside < target the heat-pump setpoint is target+1 and every
\* impacted zone's setpoint is target-1 when cop >= 2.5 (2.5 included) and
\* target otherwise; if inside >= target the heat-pump setpoint is target and
\* every impacted zone's setpoint is target-2. Inside 19, target 21, cop 3.0
\* gives heat-pump setpoint 22 and every impacted zone 20.
C12_HeatModeTable ==
    (/\ control_call.called
     /\ control_call.heat_pump_mode = Some("heat")
     /\ MeasuredImpacted # {})
    => LET hp  == ActionsOf(control_call.hp_actions, "heat_pump")
           cop == Val(control_call.heat_pump_cop)
           n   == Cardinality(MeasuredImpacted)
       IN  /\ Cardinality(hp) = 1
           /\ Len(control_call.hp_actions) = 1 + n
           /\ InsideSum < TargetSum =>
                 /\ \A a \in hp : IsMeanTargetPlus(a.setpoint, 1)
                 /\ cop >= 25000 =>
                       EveryMeasuredZoneGets(LAMBDA s : IsMeanTargetPlus(s, 0 - 1))
                 /\ cop < 25000 =>
                       EveryMeasuredZoneGets(LAMBDA s : IsMeanTargetPlus(s, 0))
           /\ InsideSum >= TargetSum =>
                 /\ \A a \in hp : IsMeanTargetPlus(a.setpoint, 0)
                 /\ EveryMeasuredZoneGets(LAMBDA s : IsMeanTargetPlus(s, 0 - 2))
           /\ (InsideSum = 1900 * n /\ TargetSum = 2100 * n /\ cop = 30000) =>
                 /\ \A a \in hp : a.setpoint = Some(Fine(2200))
                 /\ EveryMeasuredZoneGets(LAMBDA s : s = Some(Fine(2000)))

\* two impacted zones at 19 C with target 21 C and a COP of exactly 2.5: the
\* heat pump gets 22 and both zones get 20
C12_Witness ==
    /\ control_call.called
    /\ control_call.heat_pump_mode = Some("heat")
    /\ control_call.heat_pump_cop = Some(25000)
    /\ Cardinality(MeasuredImpacted) = 2
    /\ InsideSum = 2 * 1900
    /\ TargetSum = 2 * 2100
    /\ control_call.hp_actions[1].setpoint = Some(Fine(2200))
    /\ \A i \in 2..3 : control_call.hp_actions[i].setpoint = Some(Fine(2000))

\* an entity has an action with setpoint s among the cycle's actions
Receives(id, s) ==
    \E i \in 1..Len(control_call.actions) :
        control_call.actions[i].id = id /\ control_call.actions[i].setpoint = Some(s)

\* C13: in cool mode every zone classified as impacted receives setpoint 5 in
\* the cycle's actions, and the heat-pump setpoint is target-1 if mean inside >
\* mean target and target otherwise (inside = target gives target).
C13_CoolModeTable ==
    (control_call.called /\ control_call.heat_pump_mode = Some("cool")) =>
        /\ \A z \in ImpactedZones : Receives(z, Fine(500))
        /\ MeasuredImpacted # {} =>
              \A a \in ActionsOf(control_call.actions, "heat_pump") :
                 IF InsideSum > TargetSum
                 THEN IsMeanTargetPlus(a.setpoint, 0 - 1)
                 ELSE IsMeanTargetPlus(a.setpoint, 0)

\* the calls of self.set the cycle made for an entity
CommandsFor(entity_id) ==
    {exec_call.commands[i] :
        i \in {k \in 1..Len(exec_call.commands) : exec_call.commands[k].entity_id = entity_id}}

\* C14: in off mode every impacted zone (every zone the decision table is
\* given) receives setpoint 10, the heat-pump action carries state off and no
\* setpoint, and execute_control_actions never emits a set_temperature command
\* for the heat pump in that cycle.
C14_OffModeNoHeatPumpSetpoint ==
    (control_call.called /\ control_call.heat_pump_mode = Some("off")) =>
        /\ ImpactedZones # {} =>
              /\ ActionsOf(control_call.actions, "heat_pump")
                    = {[id |-> "heat_pump", state |-> Some("off"), setpoint |-> None]}
              /\ \A z \in MeasuredImpacted : Receives(z, Fine(1000))
              /\ \A i \in 2..Len(control_call.hp_actions) :
                    control_call.hp_actions[i].setpoint = Some(Fine(1000))
        /\ exec_call.called =>
              \A c \in CommandsFor("climate.heat_pump") : c.service # "set_temperature"

\* an off-mode cycle that ran to its end and sent an impacted zone its 10 C,
\* with a heat pump that reports a setpoint of its own
C14_Witness ==
    /\ control_call.called
    /\ control_call.heat_pump_mode = Some("off")
    /\ MeasuredImpacted # {}
    /\ Reported(devices_state, "climate.heat_pump", "temperature") # None
    /\ exec_call.called
    /\ ~exec_call.raised
    /\ \E z \in MeasuredImpacted :
          \E c \in CommandsFor(z) : c.service = "set_temperature" /\ c.value = Some(Fine(1000))
    /\ CommandsFor("climate.heat_pump") = {}

\* the schedule the configuration gives the heat pump for a mode key
HeatPumpSchedule(key) ==
    Get(Get(SettingsOf(hvac_systems, "climate.heat_pump"), key, EmptyDict),
        "schedule", EmptyDict)

\* ScheduleResolver for the heat pump at now, with schedule key mode + "ing"
HeatPumpScheduleTarget(mode) ==
    get_target_from_schedule(HourOf(now), DayTypeOf(now),
                             HeatPumpSchedule(IF mode = "heat" THEN "heating"
                                              ELSE IF mode = "cool" THEN "cooling"
                                              ELSE "offing"))

\* the mode the outdoor reading selects
ClaimMode ==
    LET t == Val(OutdoorReading)
    IN  IF t > 2000 THEN "cool" ELSE IF t < 1000 THEN "heat" ELSE "off"

NoLookupRaises == \A z \in ImpactedZones \cup IndependentZones : ~CycleTarget(z).raised

\* C16: in every cycle that has an outdoor reading and whose target lookups
\* do not raise, every non-impacted zone whose target for the cycle's selected
\* peak event is a temperature receives that target as its setpoint, whatever
\* the mode, the outdoor temperature, the COP and the zone's inside
\* temperature (an absent inside reading included).
C16_IndependentZoneTarget ==
    (control_call.called /\ OutdoorReading # None /\ NoLookupRaises) =>
        \A z \in IndependentZones :
            CycleTarget(z).value # None =>
                Receives(z, Fine(Val(CycleTarget(z).value)))

\* a computed action equals what the snapshot reports for its entity: the
\* state and the setpoint for the heat pump, the setpoint for a zone
EqualsReported(action) ==
    /\ action.setpoint # Some(NaN)
    /\ action.setpoint = Reported(devices_state, EntityOf(action), "temperature")
    /\ action.id = "heat_pump" => action.state = Reported(devices_state, "climate.heat_pump", "state")

AllEqualReported ==
    \A i \in 1..Len(control_call.actions) : EqualsReported(control_call.actions[i])

\* C17: in a cycle where every computed action equals the reported state and
\* setpoint of its entity, execute_control_actions makes no call of self.set
\* and completes; and a cycle that computes the previous cycle's actions again,
\* after the devices applied the previous cycle's commands, makes no call.
C17_OrchestratorIdempotent ==
    exec_call.called =>
        /\ AllEqualReported => (exec_call.commands = << >> /\ ~exec_call.raised)
        /\ (process.cycle > 1 /\ control_call.actions = process.previous)
              => exec_call.commands = << >>

\* a second cycle that repeats the actions of a first cycle that wrote
\* setpoints, with the heat pump running and at least one zone action
C17_Witness ==
    /\ exec_call.called
    /\ process.cycle > 1
    /\ process.sent # << >>
    /\ control_call.actions = process.previous
    /\ Len(control_call.actions) >= 2
    /\ control_call.heat_pump_mode # Some("off")
    /\ AllEqualReported
    /\ exec_call.commands = << >>

\* C18: in a cycle whose snapshot has no outdoor temperature (the reading is
\* missing or None) get_control_actions still completes, every non-impacted
\* zone that has an inside reading and a target receives its target as
\* setpoint, and the loop goes on to apply the actions.
C18_OutdoorMissingSkipsHeatPumpOnly ==
    (control_call.called /\ OutdoorReading = None /\ NoLookupRaises) =>
        /\ ~control_call.raised
        /\ process.status # "stopped"
        /\ \A z \in IndependentZones :
              HasMetrics(z) => Receives(z, Fine(Val(CycleTarget(z).value)))

\* no slot of zone z's schedule matches the cycle's instant: the lookup
\* without an event finds nothing
NoSlotMatches(z) ==
    LET plain == zone_target_temperature(hvac_systems, z, None, now, None)
    IN  ~plain.raised /\ plain.value = None

\* C19: in a cycle with an outdoor reading, for every zone none of whose
\* schedule slots matches, whatever the phase of the cycle's selected event,
\* the target lookup returns None without raising, the cycle's actions hold no
\* action for that zone, and get_control_actions completes with the other
\* zones' actions.
C19_NoSlotSkipsZoneOnly ==
    (control_call.called /\ OutdoorReading # None) =>
        \A z \in ImpactedZones \cup IndependentZones :
            NoSlotMatches(z) =>
                /\ ~CycleTarget(z).raised
                /\ CycleTarget(z).value = None
                /\ ActionsOf(control_call.actions, z) = {}
                /\ ~control_call.raised

\* the platform refused a call of this cycle for one of the entities it
\* rejects
SomeCallRefused ==
    \E i \in 1..Len(exec_call.commands) :
        ~exec_call.commands[i].accepted /\ exec_call.commands[i].entity_id \in rejected

\* C20: when the platform refuses a call of execute_control_actions, the loop
\* still goes through the actions of all the entities, the cycle completes and
\* the process waits for the next scheduled cycle.
C20_ApplyFailureIsolated ==
    (exec_call.called /\ SomeCallRefused) =>
        /\ exec_call.processed = Len(control_call.actions)
        /\ process.status = "wait"

----------------------------------------------------------------------------
(* Claims on the ramp for every duration *)

\* the divisor of the interpolation, None when the call returns before it
RampDivisor(ramping_time, elapsed_time) ==
    IF elapsed_time <= 0 \/ elapsed_time >= ramping_time - RampMargin
    THEN None ELSE Some(ramping_time - RampMargin)

Min(a, b) == IF a <= b THEN a ELSE b

Max(a, b) == IF a >= b THEN a ELSE b

\* C27: for every total_time (total_time <= 900 included) and every elapsed,
\* on numbers, conditioning_ramping divides by a positive duration or not at
\* all, its result lies between min(initial, target) and max(initial, target),
\* and a later elapsed gives a result that is not lower when target >= initial
\* and not higher when target <= initial.
C27_RampBoundedMonotone ==
    (ramp_call.called /\ ramp_call.target_value # None) =>
        LET total == ramp_call.ramping_time
            el    == ramp_call.elapsed_time
            i     == Val(ramp_call.initial_value)
            t     == Val(ramp_call.target_value)
            r     == ramp_call.result
        IN  /\ RampDivisor(total, el) # None => Val(RampDivisor(total, el)) > 0
            /\ ~r.raised /\ r.value # None
            /\ Min(i, t) <= Val(r.value) /\ Val(r.value) <= Max(i, t)
            /\ \A later \in ElapsedInputs :
                  later >= el =>
                      LET after == conditioning_ramping(total, later, ramp_call.initial_value,
                                                        ramp_call.target_value)
                      IN  /\ ~after.raised /\ after.value # None
                          /\ t >= i => Val(after.value) >= Val(r.value)
                          /\ t <= i => Val(after.value) <= Val(r.value)

\* a call with a duration within the margin and a positive elapsed, answered
\* with the target
C27_Witness ==
    /\ ramp_call.called
    /\ ramp_call.ramping_time <= RampMargin
    /\ ramp_call.elapsed_time > 0
    /\ ramp_call.initial_value = Some(2200)
    /\ ramp_call.target_value = Some(1800)
    /\ ramp_call.result = Returned(Some(1800))

----------------------------------------------------------------------------
(* Claims on the cycle: the decision table's input, the commands, the phases *)

\* C28: whenever the heat-pump decision table runs (some zone is classified
\* as impacted and the target lookups did not raise), the zone metrics it
\* averages are not empty, so the heat-pump setpoint it computes is a number
\* and never the mean of nothing.
C28_TableMeansDefined ==
    (control_call.called /\ ~control_call.raised /\ ImpactedZones # {}) =>
        /\ MeasuredImpacted # {}
        /\ \A a \in ActionsOf(control_call.hp_actions, "heat_pump") :
              a.setpoint # Some(NaN)

\* the positions in the cycle's commands of the calls of a service for an entity
CommandIndexes(service, entity_id) ==
    {k \in 1..Len(exec_call.commands) :
        /\ exec_call.commands[k].service = service
        /\ exec_call.commands[k].entity_id = entity_id}

\* every call of the cycle was accepted by the platform
AllCallsAccepted ==
    \A k \in 1..Len(exec_call.commands) : exec_call.commands[k].accepted

\* C25: when the platform accepts every call, execute_control_actions goes
\* through all the entities and emits, for the heat pump, one set_hvac_mode
\* with the computed state when that state differs from the reported one and
\* one set_temperature, after it, when the mode is not off and the setpoint
\* differs, and one set_temperature for each zone whose setpoint differs.
C25_CommandsMatchDifferences ==
    (exec_call.called /\ AllCallsAccepted) =>
        /\ exec_call.processed = Len(control_call.actions)
        /\ \A i \in 1..Len(control_call.actions) :
              LET action == control_call.actions[i]
                  modes  == CommandIndexes("set_hvac_mode", EntityOf(action))
                  temps  == CommandIndexes("set_temperature", EntityOf(action))
                  setpoint_differs ==
                      action.setpoint # Reported(devices_state, EntityOf(action), "temperature")
              IN  IF action.id = "heat_pump"
                  THEN /\ action.state # Reported(devices_state, "climate.heat_pump", "state")
                            => /\ Cardinality(modes) = 1
                               /\ \A k \in modes : exec_call.commands[k].value = action.state
                       /\ (action.state # Some("off") /\ setpoint_differs)
                            => /\ Cardinality(temps) = 1
                               /\ \A k \in temps :
                                     /\ exec_call.commands[k].value = action.setpoint
                                     /\ \A m \in modes : m < k
                  ELSE setpoint_differs
                            => /\ Cardinality(temps) = 1
                               /\ \A k \in temps : exec_call.commands[k].value = action.setpoint

\* the zones of the configuration that have preconditioning enabled
PreconditionedZones ==
    {z \in ImpactedZones \cup IndependentZones :
        Get(SettingsOf(hvac_systems, z), "preconditioning", FALSE)}

\* C26: in every cycle whose instant lies in [end, end + 1h) of a peak event of
\* the day, the event retrieve_gdp_event selects is still that event, and the
\* target of every zone with preconditioning enabled is resolved by the
\* recovery branch, not by the plain schedule.
C26_RecoveryFollowsEvent ==
    control_call.called =>
        \A k \in 1..Len(peak_events) :
            InRecoveryWindow(now, peak_events[k]) =>
                /\ gdp_event = Some(peak_events[k])
                /\ \A z \in PreconditionedZones : CycleTarget(z).branch = "recovery"
----------------------------------------------------------------------------
(* ConfigUpdater: update_config_with_zones *)

\* the entity ids that start with "climate."
ClimateEntities == {"climate.living", "climate.bedroom"} \cup HeatPumpEntities

\* zone.startswith("climate.")
StartsWithClimate(zone) == zone \in ClimateEntities

\* the mutant: an id is added again although the file already has it
IsNewZone_again(zone, existing_names) == StartsWithClimate(zone)

\* zone.startswith("climate.") and zone not in existing_names
IsNewZone(zone, existing_names) == StartsWithClimate(zone) /\ zone \notin existing_names

\* the entry written for a thermostat zone
DefaultZoneEntry ==
    [heat_pump_impact |-> 0,
     flexibility      |-> [upward |-> 0, downward |-> 0],
     preconditioning  |-> FALSE,
     schedule         |-> default_schedule]

\* the entry written for an id that contains "heat_pump"
DefaultHeatPumpEntry ==
    [heating |-> [schedule |-> default_schedule], cooling |-> [schedule |-> default_schedule]]

DefaultEntry(zone) == IF IsHeatPumpEntity(zone) THEN DefaultHeatPumpEntry ELSE DefaultZoneEntry

\* hvac_systems[zone] = settings: a present key keeps its place, a new one goes last
SetItem(hvac, zone, settings) ==
    IF zone \in ZoneIds(hvac)
    THEN [i \in 1..Len(hvac) |-> IF hvac[i].zone = zone THEN Entry(zone, settings) ELSE hvac[i]]
    ELSE Append(hvac, Entry(zone, settings))

\* the loop over zones; existing_names was collected before the loop
RECURSIVE AddZones(_, _, _)
AddZones(hvac, zones, existing_names) ==
    IF zones = << >> THEN hvac
    ELSE AddZones(IF IsNewZone(Head(zones), existing_names)
                  THEN SetItem(hvac, Head(zones), DefaultEntry(Head(zones)))
                  ELSE hvac,
                  Tail(zones), existing_names)

\* config.get("hvac_systems", {})
HvacSystemsOf(config) == Get(config, "hvac_systems", << >>)

\* the mapping written back to config.yaml: the other keys as loaded
update_config_with_zones(config, zones) ==
    LET hvac == HvacSystemsOf(config)
    IN  [k \in DOMAIN config \cup {"hvac_systems"} |->
            IF k = "hvac_systems" THEN AddZones(hvac, zones, ZoneIds(hvac)) ELSE config[k]]

----------------------------------------------------------------------------
(* SpecConfig: update_config_with_zones on bounded files and device lists *)

\* entries of a file: written by hand, or written by an earlier start
FileEntryInputs ==
    {Entry(z, s) : z \in ZoneIdInputs,
                   s \in {[schedule |-> evening_schedule],
                          [heat_pump_impact |-> 50, schedule |-> default_schedule],
                          DefaultZoneEntry}}
      \cup {Entry(z, HeatPumpSettings) : z \in HeatPumpEntities}

\* most entries of hvac_systems in the file at the start
MaxFileZones == 2

FileHvacInputs == {h \in SeqsUpTo(FileEntryInputs, MaxFileZones) : DistinctZones(h)}

\* config.yaml as loaded: with or without the hvac_systems key
ConfigInputs ==
    {[heat_pump_enabled |-> TRUE]}
      \cup {[heat_pump_enabled |-> TRUE, hvac_systems |-> h] : h \in FileHvacInputs}

\* get_devices_list keeps the ids that start with "climate." or "weather."
DeviceIdInputs == {"climate.living", "climate.bedroom", "climate.heat_pump", "weather.home"}

\* most ids in the list of devices
MaxDevices == 3

DevicesInputs == SeqsUpTo(DeviceIdInputs, MaxDevices)

\* most calls of update_config_with_zones on the same file
MaxUpdates == 2

InitConfig ==
    /\ boot \in {[config |-> c, zones |-> z, before |-> c, updates |-> 0] :
                    c \in ConfigInputs, z \in DevicesInputs}
    /\ scheduler = NoCall /\ cycles = NoCall /\ retrieval = NoCall /\ cop_call = NoCall
    /\ now = 0
    /\ IdleSched /\ IdleRamp /\ IdleTarget /\ IdleFeed /\ IdleHp /\ IdleZones /\ IdleCycle

\* main() at a start of the program: the file of the previous start is read
UpdateConfigWithZones ==
    /\ boot.updates < MaxUpdates
    /\ boot' = [boot EXCEPT !.before  = boot.config,
                            !.config  = update_config_with_zones(boot.config, boot.zones),
                            !.updates = boot.updates + 1]
    /\ UNCHANGED <<scheduler, cycles, retrieval, cop_call, now, sched_vars, ramp_vars, target_vars,
                   feed_vars, hp_vars, zone_vars, cycle_vars>>

NextConfig == UpdateConfigWithZones

SpecConfig == InitConfig /\ [][NextConfig]_vars

----------------------------------------------------------------------------
(* Claims on the update of config.yaml *)

\* the items of a list, as a set
Listed(zones) == {zones[i] : i \in 1..Len(zones)}

\* the entries of old are the first entries of new, as they were
KeepsEntries(old, new) == Len(new) >= Len(old) /\ \A i \in 1..Len(old) : new[i] = old[i]

\* every entry of new after those of old is the default entry of a listed
\* "climate." id that old did not have
AddsOnlyDefaults(old, new, zones) ==
    \A i \in (Len(old) + 1)..Len(new) :
        /\ new[i].zone \in Listed(zones) \cap ClimateEntities
        /\ new[i].zone \notin ZoneIds(old)
        /\ new[i].settings = IF new[i].zone \in HeatPumpEntities
                             THEN DefaultHeatPumpEntry ELSE DefaultZoneEntry

\* C24: a call of update_config_with_zones keeps every entry of hvac_systems as
\* it was, appends the default entry (the heating and cooling schedules for an
\* id containing "heat_pump") for exactly the listed ids that start with
\* "climate." and were absent, adds no other id (weather.*), and a second call
\* with the same list leaves the file as the first call wrote it
C24_UpdateConfigFrame ==
    boot.updates > 0 =>
        /\ KeepsEntries(HvacSystemsOf(boot.before), HvacSystemsOf(boot.config))
        /\ AddsOnlyDefaults(HvacSystemsOf(boot.before), HvacSystemsOf(boot.config), boot.zones)
        /\ ZoneIds(HvacSystemsOf(boot.config)) =
              ZoneIds(HvacSystemsOf(boot.before)) \cup (Listed(boot.zones) \cap ClimateEntities)
        /\ DistinctZones(HvacSystemsOf(boot.config))
        /\ boot.config.heat_pump_enabled = boot.before.heat_pump_enabled
        /\ (boot.updates > 1 => boot.config = boot.before)

\* after the second call: the list names weather.home, a zone the file had with
\* its own settings, and a zone that the first call added
C24_Witness ==
    /\ boot.updates = 2
    /\ "weather.home" \in Listed(boot.zones)
    /\ "weather.home" \notin ZoneIds(HvacSystemsOf(boot.config))
    /\ \E z \in Listed(boot.zones) \cap ZoneIdInputs :
          SettingsOf(HvacSystemsOf(boot.config), z) = [schedule |-> evening_schedule]
    /\ "climate.heat_pump" \in Listed(boot.zones)
    /\ SettingsOf(HvacSystemsOf(boot.config), "climate.heat_pump") = DefaultHeatPumpEntry
    /\ HeatPumpSettings # DefaultHeatPumpEntry

----------------------------------------------------------------------------
(* CopModel: create_cop_model *)

\* a COP point of heat-pump.yaml: outdoor_dry_bulb_C in hundredths, max in
\* ten-thousandths
CopPoint(outdoor_dry_bulb_C, max) == [outdoor_dry_bulb_C |-> outdoor_dry_bulb_C, max |-> max]

\* the list comprehension over the values of COP_points
Column(points, field) == [i \in 1..Len(points) |-> points[i][field]]

\* the number of distinct abscissas: the rank of the fit's matrix, 3 at most
FitRank(x) ==
    LET distinct == Cardinality({x[i] : i \in 1..Len(x)})
    IN  IF distinct < 3 THEN distinct ELSE 3

\* np.polyfit(x, y, 2): an empty x raises TypeError; a matrix of rank below 3
\* gives a RankWarning, which is a warning, and the least-squares solution
polyfit(x, y) ==
    IF Len(x) = 0
    THEN [raised |-> TRUE, error |-> "TypeError", warned |-> FALSE]
    ELSE [raised |-> FALSE, error |-> "", warned |-> FitRank(x) < 3,
          x |-> x, y |-> y, rank |-> FitRank(x)]

\* np.poly1d(np.polyfit(...)) over one table
FitTable(points) == polyfit(Column(points, "outdoor_dry_bulb_C"), Column(points, "max"))

\* heat_pump_performance_specs.get(mode, {}).get("COP_points", {})
CopPointsOf(specs, mode) == Get(Get(specs, mode, EmptyDict), "COP_points", << >>)

\* the cooling model is fitted first, then the heating model
create_cop_model(specs) ==
    LET cooling_cop_model == FitTable(CopPointsOf(specs, "cooling"))
        heating_cop_model == FitTable(CopPointsOf(specs, "heating"))
    IN  IF cooling_cop_model.raised
        THEN [raised |-> TRUE, error |-> cooling_cop_model.error, models |-> None]
        ELSE IF heating_cop_model.raised
        THEN [raised |-> TRUE, error |-> heating_cop_model.error, models |-> None]
        ELSE [raised |-> FALSE, error |-> "",
              models |-> Some([cool |-> cooling_cop_model, heat |-> heating_cop_model])]

----------------------------------------------------------------------------
(* SpecCop: create_cop_model and the first cycle on bounded COP tables *)

\* two points share their temperature, two others are the same point of the
\* sheet entered twice
CopPointInputs ==
    {CopPoint(0 - 1000, 20000), CopPoint(0, 30000), CopPoint(1000, 35000), CopPoint(0, 32000)}

\* most points of a COP table
MaxPoints == 3

CopTableInputs == SeqsUpTo(CopPointInputs, MaxPoints)

\* heat_pump_performance_specs of heat-pump.yaml; a mode may have no COP_points
PerformanceSpecInputs ==
    {[cooling |-> [COP_points |-> c], heating |-> [COP_points |-> h]] :
        c, h \in CopTableInputs}
      \cup {[cooling |-> [COP_points |-> c], heating |-> EmptyDict] : c \in CopTableInputs}

InitCop ==
    /\ cop_call \in {[called |-> FALSE, specs |-> s, cycle_started |-> FALSE] :
                        s \in PerformanceSpecInputs}
    /\ scheduler = NoCall /\ cycles = NoCall /\ retrieval = NoCall /\ boot = NoCall
    /\ now = 0
    /\ IdleSched /\ IdleRamp /\ IdleTarget /\ IdleFeed /\ IdleHp /\ IdleZones /\ IdleCycle

\* heat_pump_cop_models = utils.create_cop_model(): outside the try of main(),
\* an exception ends the program before the loop
CreateCopModel ==
    /\ ~cop_call.called
    /\ cop_call' = [called |-> TRUE, specs |-> cop_call.specs, cycle_started |-> FALSE]
                      @@ create_cop_model(cop_call.specs)
    /\ UNCHANGED <<scheduler, cycles, retrieval, boot, now, sched_vars, ramp_vars,
                   target_vars, feed_vars, hp_vars, zone_vars, cycle_vars>>

\* the run of _main_loop on start: the cycle reads heat_pump_cop_models
FirstMainLoop ==
    /\ cop_call.called /\ ~cop_call.raised /\ ~cop_call.cycle_started
    /\ cop_call' = [cop_call EXCEPT !.cycle_started = TRUE]
    /\ UNCHANGED <<scheduler, cycles, retrieval, boot, now, sched_vars, ramp_vars,
                   target_vars, feed_vars, hp_vars, zone_vars, cycle_vars>>

NextCop == CreateCopModel \/ FirstMainLoop

SpecCop == InitCop /\ [][NextCop]_vars

----------------------------------------------------------------------------
(* Claims on the COP model build *)

\* the number of distinct points of a table
DistinctPoints(points) == Cardinality({points[i] : i \in 1..Len(points)})

\* a table of the file has fewer than 3 distinct points
SomeTableShort ==
    \E mode \in {"cooling", "heating"} : DistinctPoints(CopPointsOf(cop_call.specs, mode)) < 3

\* C22: with fewer than 3 distinct points in the heating or the cooling table
\* create_cop_model raises InsufficientDataError, and no cycle starts with
\* models fitted from such a table
C22_ShortTableFailsBuild ==
    (cop_call.called /\ SomeTableShort) =>
        /\ cop_call.raised
        /\ cop_call.error = "InsufficientDataError"
        /\ ~cop_call.cycle_started

----------------------------------------------------------------------------
(* PeakEventRetrieval: retrieve_gdp_events (utils/utils.py) and the client
   call of retrieve_gdp_event (controller/utils/utils.py) *)

\* while attempts < 5
RetryLimit == 5

\* time.sleep(1) after a failed attempt
RetryBackoff == 1

\* what requests.get meets: a 200 response, another status, or an exception
ResponseInputs == {"200", "503", "ConnectionError"}

\* the result as a list: retrieve_gdp_events returns the list of today's
\* events, retrieve_gdp_event one event or None
AsList(optional) == IF optional = None THEN << >> ELSE << Val(optional) >>

\* "no event today": [] of retrieve_gdp_events, None of retrieve_gdp_event
NoEventToday == << >>

\* the condition of the while loop
MayRetry(attempts) == attempts < RetryLimit

\* the body of the while loop on one response: the retrieval after it
RetryStep(r, response) ==
    IF response = "200"
    THEN [r EXCEPT !.requests = r.requests + 1,
                   !.gdp_events_data = Some(r.events), !.status = "loaded"]
    ELSE [r EXCEPT !.requests = r.requests + 1, !.attempts = r.attempts + 1,
                   !.status = "retrying"]

\* after the loop: gdp_events_data["total_count"] on the [] of
\* _get_mock_gdp_events raises TypeError; otherwise the events of today
AfterLoop(r, t) ==
    IF r.gdp_events_data = None
    THEN [r EXCEPT !.status = "raised", !.error = "TypeError"]
    ELSE [r EXCEPT !.status = "returned",
                   !.result = TodayEvents(Val(r.gdp_events_data), t)]

\* peak_events_client.get_peak_events() of PeakEventClient and what follows it
\* in retrieve_gdp_event: raise_for_status and requests.get raise to the caller
ClientStep(r, response, t) ==
    IF response = "200"
    THEN [r EXCEPT !.requests = r.requests + 1, !.gdp_events_data = Some(r.events),
                   !.status = "returned",
                   !.result = AsList(retrieve_gdp_event(r.events, t))]
    ELSE [r EXCEPT !.requests = r.requests + 1, !.status = "raised",
                   !.error = IF response = "503" THEN "HTTPError" ELSE "ConnectionError"]

----------------------------------------------------------------------------
(* SpecRetrieve: the retrieval of the peak events against a feed that answers
   or not *)

RetrieveInstants == {17 * SecondsPerHour, 19 * SecondsPerHour}

\* mock: the options (or the local file) supply the events, no request is made
InitRetrieve ==
    /\ retrieval \in {[called |-> TRUE, function |-> f, mock |-> m, events |-> e,
                       requests |-> 0, attempts |-> 0, gdp_events_data |-> None,
                       status |-> "start", error |-> "", result |-> NoEventToday] :
                         f \in {"retrieve_gdp_events", "retrieve_gdp_event"},
                         m \in BOOLEAN, e \in CycleFeedInputs}
    /\ now \in RetrieveInstants
    /\ scheduler = NoCall /\ cycles = NoCall /\ boot = NoCall /\ cop_call = NoCall
    /\ IdleSched /\ IdleRamp /\ IdleTarget /\ IdleFeed /\ IdleHp /\ IdleZones /\ IdleCycle

\* gdp_events_data = _get_mock_gdp_events(), truthy: its results are returned
MockGdpEvents ==
    /\ retrieval.function = "retrieve_gdp_events"
    /\ retrieval.status = "start" /\ retrieval.mock /\ retrieval.events # << >>
    /\ retrieval' = [retrieval EXCEPT !.status = "returned", !.result = retrieval.events]
    /\ UNCHANGED <<now, scheduler, cycles, boot, cop_call, sched_vars, ramp_vars,
                   target_vars, feed_vars, hp_vars, zone_vars, cycle_vars>>

\* one pass of the while loop of retrieve_gdp_events
RequestsGet ==
    /\ retrieval.function = "retrieve_gdp_events"
    /\ retrieval.status \in {"start", "retrying"}
    /\ ~(retrieval.mock /\ retrieval.events # << >>)
    /\ MayRetry(retrieval.attempts)
    /\ \E response \in ResponseInputs :
          /\ retrieval' = RetryStep(retrieval, response)
          /\ now' = IF response = "200" THEN now ELSE now + RetryBackoff
    /\ UNCHANGED <<scheduler, cycles, boot, cop_call, sched_vars, ramp_vars,
                   target_vars, feed_vars, hp_vars, zone_vars, cycle_vars>>

\* the loop is left, by break or because attempts reached the limit
LeaveLoop ==
    /\ retrieval.function = "retrieve_gdp_events"
    /\ \/ retrieval.status = "loaded"
       \/ /\ retrieval.status \in {"start", "retrying"}
          /\ ~(retrieval.mock /\ retrieval.events # << >>)
          /\ ~MayRetry(retrieval.attempts)
    /\ retrieval' = AfterLoop(retrieval, now)
    /\ UNCHANGED <<now, scheduler, cycles, boot, cop_call, sched_vars, ramp_vars,
                   target_vars, feed_vars, hp_vars, zone_vars, cycle_vars>>

\* retrieve_gdp_event with the local file: MockPeakEventClient reads it
MockGetPeakEvents ==
    /\ retrieval.function = "retrieve_gdp_event"
    /\ retrieval.status = "start" /\ retrieval.mock
    /\ retrieval' = [retrieval EXCEPT !.status = "returned",
                                      !.result = AsList(retrieve_gdp_event(retrieval.events,
                                                                           now))]
    /\ UNCHANGED <<now, scheduler, cycles, boot, cop_call, sched_vars, ramp_vars,
                   target_vars, feed_vars, hp_vars, zone_vars, cycle_vars>>

\* retrieve_gdp_event without the local file: one request to the HEMS API
GetPeakEvents ==
    /\ retrieval.function = "retrieve_gdp_event"
    /\ retrieval.status = "start" /\ ~retrieval.mock
    /\ \E response \in ResponseInputs :
          retrieval' = ClientStep(retrieval, response, now)
    /\ UNCHANGED <<now, scheduler, cycles, boot, cop_call, sched_vars, ramp_vars,
                   target_vars, feed_vars, hp_vars, zone_vars, cycle_vars>>

NextRetrieve ==
    MockGdpEvents \/ RequestsGet \/ LeaveLoop \/ MockGetPeakEvents \/ GetPeakEvents

SpecRetrieve == InitRetrieve /\ [][NextRetrieve]_vars

----------------------------------------------------------------------------
(* Claims on the retrieval of the peak events *)

\* the retrieval is over, requests were made and none was answered with 200
FeedUnavailable ==
    /\ retrieval.status \in {"returned", "raised"}
    /\ retrieval.requests > 0
    /\ retrieval.gdp_events_data = None

\* C21: when no request to the feed is answered, the retrieval stops after 5
\* attempts at most and returns "no event today"; it does not raise
C21_UnavailableFeedDegrades ==
    /\ retrieval.requests <= RetryLimit
    /\ FeedUnavailable =>
          /\ retrieval.status = "returned"
          /\ retrieval.result = NoEventToday

----------------------------------------------------------------------------
(* ControlLoop: main(), the runs of _main_loop and the jobs of schedule *)

\* schedule.every().hour.at(":00") ... at(":55"): the minute of each job
Marks == {5 * k : k \in 0..11}

\* the next run of the job of a mark, computed at t: the first instant after t
\* at that minute of an hour
NextRunAfter(mark, t) ==
    LET this_hour == (t \div SecondsPerHour) * SecondsPerHour + mark * 60
    IN  IF this_hour > t THEN this_hour ELSE this_hour + SecondsPerHour

\* the jobs that should run at t: next_run <= now
Runnable(jobs, t) == {m \in DOMAIN jobs : jobs[m] <= t}

\* sorted(runnable_jobs): by next_run
RECURSIVE SortedByNextRun(_, _)
SortedByNextRun(jobs, marks) ==
    IF marks = {} THEN << >>
    ELSE LET first == CHOOSE m \in marks : \A o \in marks : jobs[m] <= jobs[o]
         IN  << first >> \o SortedByNextRun(jobs, marks \ {first})

\* the three statements of _main_loop, in order
Phases == << "fetch", "compute", "emit" >>

\* the mutant: each run of _main_loop is started on a thread of its own
CallerFree_threaded(in_flight) == TRUE

\* _main_loop is an ordinary function, called on the thread of main() by
\* main() itself and by run_pending: the caller goes on when it has returned
CallerFree(in_flight) == DOMAIN in_flight = {}

\* a mapping without one of its keys
Without(f, c) == [k \in DOMAIN f \ {c} |-> f[k]]

\* a statement of a run: its run, the instants around it, whether it returned,
\* and the next_run of the job that started the run (None for the start-up run)
Step(cycle, phase, from, to, ok, scheduled) ==
    [cycle |-> cycle, phase |-> phase, from |-> from, to |-> to, ok |-> ok,
     scheduled |-> scheduled]

\* a call of _main_loop: one more run in flight, none of its statements done
Called(c, scheduled) ==
    [c EXCEPT !.started = c.started + 1,
              !.in_flight = (c.started + 1 :> [done |-> 0, scheduled |-> scheduled]) @@ @]

\* the next statement of run k took until `to`; the run is over after the
\* third statement, or when one raises
Stepped(c, k, from, to, ok) ==
    [c EXCEPT !.steps = Append(@, Step(k, Phases[c.in_flight[k].done + 1], from, to, ok,
                                       c.in_flight[k].scheduled)),
              !.in_flight = IF ok /\ c.in_flight[k].done + 1 < Len(Phases)
                            THEN [@ EXCEPT ![k].done = @ + 1]
                            ELSE Without(@, k)]

----------------------------------------------------------------------------
(* SpecLoop: main() from the first run of _main_loop on, with statements that
   take no time or most of an interval *)

\* how long a statement of _main_loop takes, in seconds
DurationInputs == {0, 200}

\* most runs of _main_loop
MaxStarted == 3

\* 12h58 of day 0
LoopStart == 12 * SecondsPerHour + 58 * 60

InitLoop ==
    /\ now = LoopStart
    /\ scheduler = [position |-> "first", jobs |-> EmptyDict, due |-> << >>, running |-> None]
    /\ cycles = [started |-> 0, in_flight |-> EmptyDict, steps |-> << >>]
    /\ retrieval = NoCall /\ boot = NoCall /\ cop_call = NoCall
    /\ IdleSched /\ IdleRamp /\ IdleTarget /\ IdleFeed /\ IdleHp /\ IdleZones /\ IdleCycle

\* _main_loop() once on start
FirstRun ==
    /\ scheduler.position = "first"
    /\ cycles' = Called(cycles, None)
    /\ scheduler' = [scheduler EXCEPT !.position = "register"]
    /\ UNCHANGED <<now, retrieval, boot, cop_call, sched_vars, ramp_vars, target_vars,
                   feed_vars, hp_vars, zone_vars, cycle_vars>>

\* the twelve schedule.every().hour.at(":mm").do(_main_loop)
RegisterJobs ==
    /\ scheduler.position = "register"
    /\ CallerFree(cycles.in_flight)
    /\ scheduler' = [scheduler EXCEPT !.position = "run_pending",
                                      !.jobs = [m \in Marks |-> NextRunAfter(m, now)]]
    /\ UNCHANGED <<now, cycles, retrieval, boot, cop_call, sched_vars, ramp_vars,
                   target_vars, feed_vars, hp_vars, zone_vars, cycle_vars>>

\* schedule.run_pending(): the jobs that should run, sorted
CollectPending ==
    /\ scheduler.position = "run_pending"
    /\ CallerFree(cycles.in_flight)
    /\ scheduler' = [scheduler EXCEPT
                        !.position = "jobs",
                        !.due = SortedByNextRun(scheduler.jobs, Runnable(scheduler.jobs, now))]
    /\ UNCHANGED <<now, cycles, retrieval, boot, cop_call, sched_vars, ramp_vars,
                   target_vars, feed_vars, hp_vars, zone_vars, cycle_vars>>

\* run_pending runs the next of these jobs: it calls _main_loop
RunJob ==
    /\ scheduler.position = "jobs"
    /\ CallerFree(cycles.in_flight)
    /\ scheduler.due # << >>
    /\ cycles.started < MaxStarted
    /\ cycles' = Called(cycles, Some(scheduler.jobs[Head(scheduler.due)]))
    /\ scheduler' = [scheduler EXCEPT !.position = "job",
                                      !.running = Some(Head(scheduler.due)),
                                      !.due = Tail(scheduler.due)]
    /\ UNCHANGED <<now, retrieval, boot, cop_call, sched_vars, ramp_vars, target_vars,
                   feed_vars, hp_vars, zone_vars, cycle_vars>>

\* the job function has returned: the job gets its next run
JobDone ==
    /\ scheduler.position = "job"
    /\ CallerFree(cycles.in_flight)
    /\ scheduler' = [scheduler EXCEPT
                        !.position = "jobs",
                        !.running = None,
                        !.jobs[Val(scheduler.running)] =
                            NextRunAfter(Val(scheduler.running), now)]
    /\ UNCHANGED <<now, cycles, retrieval, boot, cop_call, sched_vars, ramp_vars,
                   target_vars, feed_vars, hp_vars, zone_vars, cycle_vars>>

\* run_pending has returned: time.sleep(1), then the loop calls it again
Sleep ==
    /\ scheduler.position = "jobs"
    /\ CallerFree(cycles.in_flight)
    /\ scheduler.due = << >>
    /\ cycles.started < MaxStarted
    /\ now' = now + 1
    /\ scheduler' = [scheduler EXCEPT !.position = "run_pending"]
    /\ UNCHANGED <<cycles, retrieval, boot, cop_call, sched_vars, ramp_vars, target_vars,
                   feed_vars, hp_vars, zone_vars, cycle_vars>>

\* the next statement of a run in flight, when it is the given one; an
\* exception ends the run and takes main() to its except clause
MainLoopStep(phase) ==
    \E k \in DOMAIN cycles.in_flight, took \in DurationInputs, ok \in BOOLEAN :
        /\ Phases[cycles.in_flight[k].done + 1] = phase
        /\ now' = now + took
        /\ cycles' = Stepped(cycles, k, now, now + took, ok)
        /\ scheduler' = IF ok THEN scheduler ELSE [scheduler EXCEPT !.position = "stopped"]
        /\ UNCHANGED <<retrieval, boot, cop_call, sched_vars, ramp_vars, target_vars,
                       feed_vars, hp_vars, zone_vars, cycle_vars>>

\* devices_state = ha_interface.get_device_state(...)
StateFetch == MainLoopStep("fetch")

\* control_actions = ha_interface.get_control_actions(...)
ActionComputation == MainLoopStep("compute")

\* ha_interface.execute_control_actions(...)
ActionEmission == MainLoopStep("emit")

NextLoop ==
    \/ FirstRun \/ RegisterJobs \/ CollectPending \/ RunJob \/ JobDone \/ Sleep
    \/ StateFetch \/ ActionComputation \/ ActionEmission

SpecLoop == InitLoop /\ [][NextLoop]_vars

----------------------------------------------------------------------------
(* Claims on the loop *)

\* the statement closes its run: the third one, or one that raised
ClosesRun(step) == step.phase = Phases[Len(Phases)] \/ ~step.ok

\* statement i of the history follows the one before as one thread runs them:
\* the next statement of the same run, or the fetch of the next run once the
\* run before is closed
InProgramOrder(steps, i) ==
    IF i = 1 THEN steps[1].cycle = 1 /\ steps[1].phase = "fetch"
    ELSE /\ steps[i].from >= steps[i - 1].to
         /\ IF ClosesRun(steps[i - 1])
            THEN steps[i].cycle = steps[i - 1].cycle + 1 /\ steps[i].phase = "fetch"
            ELSE /\ steps[i].cycle = steps[i - 1].cycle
                 /\ \E p \in 1..(Len(Phases) - 1) :
                       steps[i - 1].phase = Phases[p] /\ steps[i].phase = Phases[p + 1]

\* C23: at most one run of _main_loop is in flight at any time, the start-up
\* run and the scheduled runs alike; the statements of a run execute as fetch,
\* compute, emit with no statement of another run between them, also when a
\* run lasts longer than the 5-minute interval
C23_CyclesNeverOverlap ==
    /\ Cardinality(DOMAIN cycles.in_flight) <= 1
    /\ \A i \in 1..Len(cycles.steps) : InProgramOrder(cycles.steps, i)
    /\ \A k \in DOMAIN cycles.in_flight :
          \A i \in 1..Len(cycles.steps) :
              cycles.steps[i].cycle # k => ClosesRun(cycles.steps[i]) \/
                  \E j \in (i + 1)..Len(cycles.steps) :
                      cycles.steps[j].cycle = cycles.steps[i].cycle /\ ClosesRun(cycles.steps[j])

\* the first instant of run k in the history, and its last
RunFrom(steps, k) == steps[CHOOSE i \in 1..Len(steps) : steps[i].cycle = k /\ steps[i].phase = "fetch"].from

RunTo(steps, k) == steps[CHOOSE i \in 1..Len(steps) : steps[i].cycle = k /\ ClosesRun(steps[i])].to

\* three runs have completed; the second, a scheduled one, lasted longer than
\* the interval, and the job of the third came due while the second was in
\* flight: the third started only after the second had returned
C23_Witness ==
    /\ Len(cycles.steps) = 3 * Len(Phases)
    /\ \A i \in 1..Len(cycles.steps) : cycles.steps[i].ok
    /\ RunTo(cycles.steps, 2) - RunFrom(cycles.steps, 2) > TimeStep
    /\ cycles.steps[7].scheduled # None
    /\ Val(cycles.steps[7].scheduled) > RunFrom(cycles.steps, 2)
    /\ Val(cycles.steps[7].scheduled) < RunTo(cycles.steps, 2)
    /\ RunFrom(cycles.steps, 3) >= RunTo(cycles.steps, 2)

============================================================================
